---------------------------- MODULE Spec2Model ----------------------------
(***************************************************************************)
(* Model of the feed-assembly and view-hydration code of the repository:   *)
(*   - the getFeed pipeline of the bsky appview                             *)
(*       src/packages/bsky/src/api/app/bsky/feed/getFeed.ts                *)
(*   - FeedService of the pds app-view (batch loaders, embed resolution,   *)
(*     display-name truncation)                                            *)
(*       src/packages/pds/src/app-view/services/feed/index.ts              *)
(* Each part has its own specifications (SpecTrunc; SpecFeed, SpecSkel;    *)
(* SpecSvc, SpecActor, SpecHydrate, SpecTakedown)                          *)
(*   - EventPusher of the ozone daemon (poll loops, push rounds)           *)
(*       src/packages/ozone/src/daemon/event-pusher.ts                     *)
(*     (SpecPoll, SpecPush)                                                *)
(* The variables of the other parts are held at their idle values.         *)
(***************************************************************************)
EXTENDS Integers, Sequences, FiniteSets, TLC

VARIABLES
  \* ---- truncateUtf8 (pds feed service) ----
  displayName,   \* the string handed to truncateUtf8, a sequence of code points
  truncName,     \* what truncateUtf8 returned
  truncDone,     \* FALSE before the call, TRUE after it
  \* ---- getFeed pipeline (bsky) ----
  pc,            \* position of the request in the pipeline
  params,        \* query parameters of the request
  headers,       \* headers of the incoming request
  resolution,    \* outcome of the lookups that lead to the generator's endpoint
  outbound,      \* the getFeedSkeleton calls made to the feed generator, in order
  upstream,      \* outcome of the outbound getFeedSkeleton call
  skeleton,      \* the Skeleton state object shared by the stages
  hydration,     \* the hydration state
  response,      \* the response (headers, body) or the error of the request
  stages,        \* the stages entered so far, in order
  \* ---- FeedService (pds) ----
  db,            \* the data layer read by the batch loaders
  op,            \* the FeedService method that ran last, with its arguments
  calls,         \* the queries and collaborator calls that method issued
  result,        \* what that method returned
  hydrate,       \* a hydrateFeed call in flight: its position and its locals
  \* ---- EventPusher (ozone daemon) ----
  pusher,        \* the EventPusher: destroyed, and the calls of start and destroy
  pollState,     \* the three PollStates, with the rounds and timers of each loop
  events,        \* the repo, record and blob push event tables
  now,           \* the clock read by new Date()
  pushlog,       \* the last call of a push function: its table before, its inputs
  accepting,     \* TRUE once the appview and the moderation service accept every
                 \* request and the transactions commit, for good
  \* ---- moderation subject status ----
  modStatus,     \* the rows of moderation_subject_status
  modLog,        \* the last call of adjustModerationSubjectStatus
  modLast,       \* per subject, the last takedown or reverse-takedown applied
  \* ---- post indexing (pds) ----
  postDb,        \* the post, post_embed_* and post_hierarchy tables
  indexLog       \* the last record indexed and the messages it produced

truncVars == <<displayName, truncName, truncDone>>
feedVars  == <<pc, params, headers, resolution, outbound, upstream, skeleton,
               hydration, response, stages>>
svcVars   == <<db, op, calls, result, hydrate>>
pusherVars == <<pusher, pollState, events, now, pushlog, accepting>>
modVars   == <<modStatus, modLog, modLast>>
indexVars == <<postDb, indexLog>>
vars      == <<truncVars, feedVars, svcVars, pusherVars, modVars, indexVars>>

(***************************************************************************)
(* Generic helpers                                                         *)
(***************************************************************************)
Range(s) == {s[i] : i \in 1..Len(s)}

RECURSIVE SeqsUpTo(_, _)
\* all sequences over S of length at most n
SeqsUpTo(S, n) ==
  IF n = 0 THEN {<<>>}
  ELSE LET shorter == SeqsUpTo(S, n - 1)
       IN  shorter \cup {Append(s, x) : s \in {t \in shorter : Len(t) = n - 1}, x \in S}

IsPrefix(p, s) == Len(p) <= Len(s) /\ \A i \in 1..Len(p) : p[i] = s[i]

\* Array.prototype.slice(0, n)
Slice(s, n) == SubSeq(s, 1, IF n < Len(s) THEN n ELSE Len(s))

(***************************************************************************)
(* truncateUtf8: strings are sequences of Unicode code points, bytes are   *)
(* integers 0..255.  TextEncoder and TextDecoder are modelled by the       *)
(* WHATWG Encoding algorithms they implement.                              *)
(***************************************************************************)
\* U+FFFD, the replacement character the decoder emits and the regular
\* expression of truncateUtf8 removes; three bytes in UTF-8
Replacement == 65533
\* U+FEFF, the byte order mark a TextDecoder leaves out; three bytes in UTF-8
ByteOrderMark == 65279

\* the code points strings are drawn from: 'a' (one byte), U+00E9 (two bytes),
\* U+20AC (three bytes), U+1F600 (four bytes), U+FFFD and U+FEFF
CodePoints == {97, 233, 8364, 128512, Replacement, ByteOrderMark}

\* the byte budget getActorInfos passes for a display name
DisplayNameMaxBytes == 64

\* bounds of the strings drawn
MaxPad  == 64
MaxTail == 2

\* TextEncoder.encode of one code point
Utf8Bytes(cp) ==
  IF cp < 128 THEN <<cp>>
  ELSE IF cp < 2048 THEN <<192 + (cp \div 64), 128 + (cp % 64)>>
  ELSE IF cp < 65536
    THEN <<224 + (cp \div 4096), 128 + ((cp \div 64) % 64), 128 + (cp % 64)>>
    ELSE <<240 + (cp \div 262144), 128 + ((cp \div 4096) % 64),
           128 + ((cp \div 64) % 64), 128 + (cp % 64)>>

RECURSIVE Utf8Encode(_)
\* TextEncoder.encode(str)
Utf8Encode(str) ==
  IF str = <<>> THEN <<>>
  ELSE Utf8Bytes(Head(str)) \o Utf8Encode(Tail(str))

\* the decoder's state between bytes, and the code points emitted so far
DecoderStart(out) ==
  [needed |-> 0, seen |-> 0, cp |-> 0, lower |-> 128, upper |-> 191, out |-> out]

\* the WHATWG UTF-8 decoder reading byte b with no sequence pending
DecodeLeadByte(st, b) ==
  IF b <= 127 THEN [st EXCEPT !.out = Append(st.out, b)]
  ELSE IF b >= 194 /\ b <= 223
    THEN [st EXCEPT !.needed = 1, !.cp = b % 32]
  ELSE IF b >= 224 /\ b <= 239
    THEN [st EXCEPT !.needed = 2, !.cp = b % 16,
                    !.lower = IF b = 224 THEN 160 ELSE 128,
                    !.upper = IF b = 237 THEN 159 ELSE 191]
  ELSE IF b >= 240 /\ b <= 244
    THEN [st EXCEPT !.needed = 3, !.cp = b % 8,
                    !.lower = IF b = 240 THEN 144 ELSE 128,
                    !.upper = IF b = 244 THEN 143 ELSE 191]
  ELSE [st EXCEPT !.out = Append(st.out, Replacement)]

\* the decoder in replacement (non-fatal) mode reading byte b in state st
DecodeByte(st, b) ==
  IF st.needed = 0 THEN DecodeLeadByte(st, b)
  ELSE IF b < st.lower \/ b > st.upper
    \* U+FFFD for the broken sequence; the byte is put back and read again
    THEN DecodeLeadByte(DecoderStart(Append(st.out, Replacement)), b)
  ELSE LET cp == st.cp * 64 + (b % 64) IN
    IF st.seen + 1 # st.needed
      THEN [st EXCEPT !.cp = cp, !.seen = st.seen + 1, !.lower = 128, !.upper = 191]
      ELSE DecoderStart(Append(st.out, cp))

RECURSIVE DecodeBytes(_, _, _, _)
\* the decoder's state after bytes[lo..hi], read in order from state st
DecodeBytes(bytes, lo, hi, st) ==
  IF lo > hi THEN st
  ELSE IF lo = hi THEN DecodeByte(st, bytes[lo])
  ELSE LET mid == (lo + hi) \div 2
           left == DecodeBytes(bytes, lo, mid, st)
       IN  IF left.needed >= 0 THEN DecodeBytes(bytes, mid + 1, hi, left) ELSE left

\* the code points of the whole stream: a sequence still pending at the end of
\* the stream yields one U+FFFD
Utf8Decode(bytes) ==
  LET st == DecodeBytes(bytes, 1, Len(bytes), DecoderStart(<<>>))
  IN  IF st.needed # 0 THEN Append(st.out, Replacement) ELSE st.out

\* new TextDecoder('utf-8', { fatal: false }).decode(bytes): ignoreBOM is unset,
\* so a leading U+FEFF of the decoded stream is not part of the result
TextDecode(bytes) ==
  LET cps == Utf8Decode(bytes)
  IN  IF cps # <<>> /\ Head(cps) = ByteOrderMark THEN Tail(cps) ELSE cps

\* str.replace(/\uFFFD$/, ''): one U+FFFD at the very end is removed
StripTrailingReplacement(str) ==
  IF str # <<>> /\ str[Len(str)] = Replacement
    THEN SubSeq(str, 1, Len(str) - 1)
    ELSE str

truncateUtf8(str, length) ==
  IF str = <<>> THEN str
  ELSE LET utf8 == Utf8Encode(str) IN
    IF Len(utf8) > length
      THEN StripTrailingReplacement(TextDecode(SubSeq(utf8, 1, length)))
      ELSE str

\* the display names drawn: an optional first code point, a run of 'a',
\* and a tail of arbitrary code points
Pad(n) == [i \in 1..n |-> 97]

DisplayNames ==
  {first \o Pad(n) \o tail :
     first \in SeqsUpTo(CodePoints, 1), n \in 0..MaxPad,
     tail \in SeqsUpTo(CodePoints, MaxTail)}

TruncIdle ==
  /\ displayName = <<>>
  /\ truncName = <<>>
  /\ truncDone = FALSE

TruncInit ==
  /\ displayName \in DisplayNames
  /\ truncName = <<>>
  /\ truncDone = FALSE

\* getActorInfos: displayName: truncateUtf8(cur.displayName, 64)
TruncateDisplayName ==
  /\ ~truncDone
  /\ truncName' = truncateUtf8(displayName, DisplayNameMaxBytes)
  /\ truncDone' = TRUE
  /\ UNCHANGED <<displayName, feedVars, svcVars, pusherVars, modVars, indexVars>>

(***************************************************************************)
(* getFeed pipeline (bsky).  Objects are functions from keys to values;    *)
(* an absent key reads as Undefined.                                       *)
(***************************************************************************)
Undefined == "<undefined>"
EmptyObj  == [k \in {} |-> Undefined]

Get(o, k) == IF k \in DOMAIN o THEN o[k] ELSE Undefined

\* { ...a, ...b }: keys of b replace those of a
ObjSpread(a, b) ==
  [k \in DOMAIN a \cup DOMAIN b |-> IF k \in DOMAIN b THEN b[k] ELSE a[k]]

\* const { k1, k2, ...rest } = o
ObjRest(o, keys) == [k \in DOMAIN o \ keys |-> o[k]]

\* the accounts other than the viewer of the request
Dids == {"did:a", "did:b"}

AtUri(did, collection, rkey) == [did |-> did, collection |-> collection, rkey |-> rkey]
NoUri == AtUri("", "", "")

PostA1 == AtUri("did:a", "app.bsky.feed.post", "1")
PostB1 == AtUri("did:b", "app.bsky.feed.post", "1")
PostB2 == AtUri("did:b", "app.bsky.feed.post", "2")   \* a reply to PostA1
RepostByA == AtUri("did:a", "app.bsky.feed.repost", "1")
RepostByB == AtUri("did:b", "app.bsky.feed.repost", "1")
FeedPosts == {PostA1, PostB1, PostB2}

\* the reply pointers stored in the post records
ReplyAncestors(uri) == IF uri = PostB2 THEN {PostA1} ELSE {}

\* bounds of the requests and generator responses drawn
MaxFeed  == 2
MaxLimit == 2

\* one entry of the generator's feed: the post uri, reason.repost (a string
\* uri, absent, or a value that is not a string) and the feedContext string
FeedEntry(post, repostKind, repost, ctx) ==
  [post |-> post, repostKind |-> repostKind, repost |-> repost, feedContext |-> ctx]

FeedEntries ==
  { FeedEntry(PostA1, "absent", NoUri, Undefined),
    FeedEntry(PostA1, "string", RepostByB, "ctx-1"),
    FeedEntry(PostB1, "absent", NoUri, "ctx-2"),
    FeedEntry(PostB1, "string", RepostByA, Undefined),
    FeedEntry(PostB2, "absent", NoUri, Undefined),
    FeedEntry(PostB2, "object", NoUri, "ctx-3") }

Cursors   == {"cursor-1"}
\* the other top-level fields a generator may add: one of its own, and two
\* named like the fields skeletonFromFeedGen adds itself
ExtraKeys == {"x", "resHeaders", "feedItems"}
ExtraValue(k) ==
  IF k = "resHeaders" THEN [h \in {"set-cookie"} |-> "injected"]
  ELSE IF k = "feedItems" THEN <<>>
  ELSE "extra"

\* the body of a successful getFeedSkeleton response: feed, an optional
\* cursor, and any other top-level fields the generator adds
GeneratorBodies ==
  { ObjSpread(ObjSpread([feed |-> f], c), e) :
      f \in SeqsUpTo(FeedEntries, MaxFeed),
      c \in {EmptyObj} \cup {[cursor |-> x] : x \in Cursors},
      e \in {[k \in K |-> ExtraValue(k)] : K \in {{}, ExtraKeys}} }

ContentLanguages == {Undefined, "en"}

\* errors: class, XRPC status (ResponseType), error name, message, and the
\* identity of the error value (0 for one the pipeline creates)
Err(class, status, name, message, id) ==
  [class |-> class, status |-> status, name |-> name, message |-> message, id |-> id]
NoErr == Err("", "", "", "", 0)

\* What agent.api.app.bsky.feed.getFeedSkeleton can throw.  An UnknownFeedError
\* wraps an HTTP error response; the statuses Unknown (no response) and
\* InvalidResponse (schema validation of a received body) come with a plain
\* XRPCError.  Anything that is not an XRPCError has no status.
UpstreamErrors ==
  { Err("UnknownFeedError", "InvalidRequest", "UnknownFeed", "unknown feed", 1) }
  \cup { Err("XRPCError", st, st, "upstream", 2) :
           st \in {"Unknown", "InvalidResponse", "InvalidRequest", "InternalServerError"} }
  \cup { Err("Error", Undefined, "", "socket closed", 3) }

\* result.headers: the generator's response headers, content-language among
\* them when lang is set
ResponseHeaders(lang) ==
  ObjSpread([h \in {"set-cookie"} |-> "g=1"],
            IF lang # Undefined THEN [h \in {"content-language"} |-> lang] ELSE EmptyObj)
UpstreamOk(data, lang) ==
  [ok |-> TRUE, data |-> data, headers |-> ResponseHeaders(lang), err |-> NoErr]
UpstreamErr(e) == [ok |-> FALSE, data |-> [feed |-> <<>>], headers |-> EmptyObj, err |-> e]
NoUpstream == UpstreamErr(NoErr)

UpstreamOutcomes ==
  { UpstreamOk(d, l) : d \in GeneratorBodies, l \in ContentLanguages }
  \cup { UpstreamErr(e) : e \in UpstreamErrors }

\* A header value of the incoming request: node gives a string, or an array of
\* strings for a header sent several times.  A string is kept as the list of
\* its comma-separated parts, so that Array.prototype.join(',') is the array's
\* parts as one string.
HeaderValue(array, parts) == [array |-> array, parts |-> parts]
Join(v) == HeaderValue(FALSE, v.parts)

\* the headers the outbound call may carry
ForwardedHeaders == {"authorization", "accept-language", "x-bsky-topics"}

\* the incoming requests' headers: each of the three headers above, and a
\* cookie, may be there or not; x-bsky-topics may be a string or an array
IncomingHeaders ==
  { ObjSpread(ObjSpread(a, l), ObjSpread(t, c)) :
      a \in {EmptyObj, [h \in {"authorization"} |-> HeaderValue(FALSE, <<"Bearer jwt">>)]},
      l \in {EmptyObj, [h \in {"accept-language"} |-> HeaderValue(FALSE, <<"en">>)]},
      t \in {EmptyObj, [h \in {"x-bsky-topics"} |-> HeaderValue(FALSE, <<"t1">>)],
                       [h \in {"x-bsky-topics"} |-> HeaderValue(TRUE, <<"t1", "t2">>)]},
      c \in {EmptyObj, [h \in {"cookie"} |-> HeaderValue(FALSE, <<"session">>)]} }

\* noUndefinedVals({ authorization, 'accept-language', 'x-bsky-topics' })
OutboundHeaders(hdrs) ==
  [h \in ForwardedHeaders \cap DOMAIN hdrs |->
     IF h = "x-bsky-topics" /\ hdrs[h].array THEN Join(hdrs[h]) ELSE hdrs[h]]

\* the getFeedSkeleton call made on the agent of the generator's endpoint
OutboundCall(endpoint, prm, hdrs) ==
  [service |-> endpoint,
   params |-> [feed |-> prm.feed, limit |-> prm.limit, cursor |-> Get(prm, "cursor")],
   headers |-> OutboundHeaders(hdrs)]

\* The lookups before the call: the did of the feed generator record found for
\* params.feed, the outcome of dataplane.getIdentityByDid ("ok", the dataplane
\* error "NotFound", or another error), and the endpoint getServiceEndpoint
\* finds among the identity's services.
Resolution(feedDid, identity, endpoint) ==
  [feedDid |-> feedDid, identity |-> identity, endpoint |-> endpoint]
NoResolution == Resolution(Undefined, "", Undefined)
GeneratorDid == "did:gen"
GeneratorEndpoint == "https://gen.example"
Resolutions ==
  { Resolution(Undefined, "", Undefined),
    Resolution(GeneratorDid, "NotFound", Undefined),
    Resolution(GeneratorDid, "Unavailable", Undefined),
    Resolution(GeneratorDid, "ok", Undefined),
    Resolution(GeneratorDid, "ok", GeneratorEndpoint) }

\* the error getIdentityByDid throws when the dataplane is not reachable
IdentityError == Err("ConnectError", Undefined, "", "dataplane unavailable", 5)

InvalidRequestError(message) == Err("InvalidRequestError", "InvalidRequest", "", message, 0)

\* the outcome of a function: the value returned or the error thrown, and the
\* outbound calls it made
Returned(v) == [threw |-> FALSE, value |-> v, error |-> NoErr, calls |-> <<>>]
Threw(e)    == [threw |-> TRUE, value |-> EmptyObj, error |-> e, calls |-> <<>>]
WithCalls(r, cs) == [r EXCEPT !.calls = cs]

\* mutant of UpstreamErrorThrown: every error that is not the unknown-feed
\* error is reported as 'feed unavailable'
UpstreamErrorThrown_WrapsEverything(err) ==
  IF err.class = "UnknownFeedError"
    THEN Err("InvalidRequestError", "InvalidRequest", "UnknownFeed", err.message, 0)
    ELSE Err("UpstreamFailureError", "UpstreamFailure", "", "feed unavailable", 0)

\* the catch block of skeletonFromFeedGen: the error thrown for a caught err
UpstreamErrorThrown(err) ==
  IF err.class = "UnknownFeedError"
    THEN Err("InvalidRequestError", "InvalidRequest", "UnknownFeed", err.message, 0)
  ELSE IF err.class = "XRPCError" /\ err.status = "Unknown"
    THEN Err("UpstreamFailureError", "UpstreamFailure", "", "feed unavailable", 0)
  ELSE IF err.class = "XRPCError" /\ err.status = "InvalidResponse"
    THEN Err("UpstreamFailureError", "UpstreamFailure", "InvalidFeedResponse",
             "feed provided an invalid response", 0)
  ELSE err

\* feedSkele.map(...): generator entries to skeleton items
\* mutant of FeedItemOf: the feedContext of the entry is not kept
FeedItemOf_DropsFeedContext(entry) ==
  [post |-> entry.post,
   repost |-> IF entry.repostKind = "string" THEN entry.repost ELSE NoUri,
   feedContext |-> Undefined]

\* one entry of skeleton.feed as a skeleton item: the repost reference is kept
\* when reason.repost is a string
FeedItemOf(entry) ==
  [post |-> entry.post,
   repost |-> IF entry.repostKind = "string" THEN entry.repost ELSE NoUri,
   feedContext |-> entry.feedContext]

\* the lookups of skeletonFromFeedGen before the call: the error thrown, NoErr
\* when the endpoint of the feed generator is found
LookupError(res) ==
  IF res.feedDid = Undefined
    THEN InvalidRequestError("could not find feed")
  ELSE IF res.identity = "NotFound"
    THEN InvalidRequestError("could not resolve identity")
  ELSE IF res.identity # "ok"
    THEN IdentityError
  ELSE IF res.endpoint = Undefined
    THEN InvalidRequestError("invalid feed generator service details in did document")
  ELSE NoErr

\* mutant of AlgoResponseOf: every response header of the generator is kept
AlgoResponseOf_KeepsAllHeaders(up) ==
  LET skele == ObjRest(up.data, {"feed"})
      feedItems == [i \in 1..Len(up.data.feed) |-> FeedItemOf(up.data.feed[i])]
  IN  ObjSpread(skele, [resHeaders |-> up.headers, feedItems |-> feedItems])

\* the AlgoResponse built from a successful answer of the generator
AlgoResponseOf(up) ==
  LET resHeaders ==
        IF Get(up.headers, "content-language") # Undefined
          THEN [h \in {"content-language"} |-> up.headers["content-language"]]
          ELSE EmptyObj
      skele == ObjRest(up.data, {"feed"})
      feedItems == [i \in 1..Len(up.data.feed) |-> FeedItemOf(up.data.feed[i])]
  IN  ObjSpread(skele, [resHeaders |-> resHeaders, feedItems |-> feedItems])

\* mutant of skeletonFromFeedGen: an error of the outbound call is swallowed
\* and an empty skeleton returned
skeletonFromFeedGen_SwallowsErrors(prm, hdrs, res, up) ==
  IF LookupError(res) # NoErr THEN Threw(LookupError(res))
  ELSE WithCalls(IF up.ok THEN Returned(AlgoResponseOf(up))
                          ELSE Returned([resHeaders |-> EmptyObj, feedItems |-> <<>>]),
                 <<OutboundCall(res.endpoint, prm, hdrs)>>)

\* mutant of skeletonFromFeedGen: the identity's services are not looked at
\* and the call is made, to an undefined service when there is no endpoint
skeletonFromFeedGen_CallsWithoutEndpoint(prm, hdrs, res, up) ==
  IF LookupError(res) # NoErr /\ ~(res.identity = "ok" /\ res.endpoint = Undefined)
    THEN Threw(LookupError(res))
  ELSE WithCalls(IF up.ok THEN Returned(AlgoResponseOf(up))
                          ELSE Threw(UpstreamErrorThrown(up.err)),
                 <<OutboundCall(res.endpoint, prm, hdrs)>>)

\* mutant of skeletonFromFeedGen: a failed call is made a second time
skeletonFromFeedGen_RetriesOnce(prm, hdrs, res, up) ==
  LET call == OutboundCall(res.endpoint, prm, hdrs) IN
  IF LookupError(res) # NoErr THEN Threw(LookupError(res))
  ELSE IF up.ok THEN WithCalls(Returned(AlgoResponseOf(up)), <<call>>)
  ELSE WithCalls(Threw(UpstreamErrorThrown(up.err)), <<call, call>>)

\* mutant of skeletonFromFeedGen: every header of the request is forwarded
skeletonFromFeedGen_ForwardsAllHeaders(prm, hdrs, res, up) ==
  LET call == [OutboundCall(res.endpoint, prm, hdrs) EXCEPT !.headers = hdrs] IN
  IF LookupError(res) # NoErr THEN Threw(LookupError(res))
  ELSE WithCalls(IF up.ok THEN Returned(AlgoResponseOf(up))
                          ELSE Threw(UpstreamErrorThrown(up.err)),
                 <<call>>)

\* skeletonFromFeedGen: the AlgoResponse returned or the error thrown, and the
\* calls made to the feed generator.  res is what the lookups give and up what
\* the generator answers if it is called.
skeletonFromFeedGen(prm, hdrs, res, up) ==
  IF LookupError(res) # NoErr THEN Threw(LookupError(res))
  ELSE WithCalls(IF up.ok THEN Returned(AlgoResponseOf(up))
                          ELSE Threw(UpstreamErrorThrown(up.err)),
                 <<OutboundCall(res.endpoint, prm, hdrs)>>)

\* the skeleton stage: the Skeleton state built from the AlgoResponse
SkeletonOf(algo) ==
  [cursor |-> Get(algo, "cursor"),
   items |-> algo.feedItems,
   resHeaders |-> algo.resHeaders,
   passthrough |-> ObjRest(algo, {"feedItems", "cursor", "resHeaders"})]

NoSkeleton == [cursor |-> Undefined, items |-> <<>>, resHeaders |-> EmptyObj,
               passthrough |-> EmptyObj]

\* the viewer's relationship with an account, as hydrated
Rel(blocking, blockedBy, muted) ==
  [blocking |-> blocking, blockedBy |-> blockedBy, muted |-> muted]
Relations == { Rel(FALSE, FALSE, FALSE), Rel(TRUE, FALSE, FALSE),
               Rel(FALSE, TRUE, FALSE), Rel(FALSE, FALSE, TRUE) }

\* what hydrateFeedItems can return: the relationships of the accounts and
\* the posts found; a post may be gone by the time of hydration
HydrationStates ==
  { [rel |-> r, posts |-> FeedPosts \ gone] :
      r \in [Dids -> Relations], gone \in {{}} \cup {{p} : p \in FeedPosts} }
NoHydration == [rel |-> [d \in Dids |-> Rel(FALSE, FALSE, FALSE)], posts |-> {}]

creatorFromUri(uri) == uri.did

\* ctx.views.feedItemBlocksAndMutes(item, hydration)
feedItemBlocksAndMutes(item, state) ==
  LET authorDid == creatorFromUri(item.post)
      originatorDid == IF item.repost # NoUri THEN creatorFromUri(item.repost) ELSE authorDid
      blocked(did) == state.rel[did].blocking \/ state.rel[did].blockedBy
  IN  [authorBlocked |-> blocked(authorDid),
       authorMuted |-> state.rel[authorDid].muted,
       originatorBlocked |-> blocked(originatorDid),
       originatorMuted |-> state.rel[originatorDid].muted,
       ancestorAuthorBlocked |->
         /\ item.post \in state.posts
         /\ \E anc \in ReplyAncestors(item.post) : state.rel[creatorFromUri(anc)].blocking]

\* ctx.views.feedViewPost(item, hydration): defined when the post is hydrated
FeedViewDefined(item, state) == item.post \in state.posts
feedViewPost(item, state) ==
  [post |-> item.post, author |-> creatorFromUri(item.post), reason |-> item.repost]

\* mutant of KeepItem: the mute of the repost originator is not looked at
KeepItem_IgnoresOriginatorMute(item, state) ==
  LET bam == feedItemBlocksAndMutes(item, state)
  IN  /\ ~bam.authorBlocked
      /\ ~bam.authorMuted
      /\ ~bam.originatorBlocked
      /\ ~bam.ancestorAuthorBlocked

\* the predicate of skeleton.items.filter(...) in noBlocksOrMutes
KeepItem(item, state) ==
  LET bam == feedItemBlocksAndMutes(item, state)
  IN  /\ ~bam.authorBlocked
      /\ ~bam.authorMuted
      /\ ~bam.originatorBlocked
      /\ ~bam.originatorMuted
      /\ ~bam.ancestorAuthorBlocked

\* the rules stage: the skeleton with its items filtered, nothing else changed
noBlocksOrMutes(skel, state) ==
  [skel EXCEPT !.items = SelectSeq(skel.items, LAMBDA item : KeepItem(item, state))]

\* mutant of PresentedFeed: the items are cut to the limit before the ones
\* without a view are dropped
PresentedFeed_SliceBeforeViews(skel, state, limit) ==
  LET defined == SelectSeq(Slice(skel.items, limit),
                           LAMBDA item : FeedViewDefined(item, state))
  IN  [i \in 1..Len(defined) |->
         ObjSpread(feedViewPost(defined[i], state),
                   [feedContext |-> defined[i].feedContext])]

\* mapDefined(skeleton.items, fn).slice(0, params.limit)
PresentedFeed(skel, state, limit) ==
  LET defined == SelectSeq(skel.items, LAMBDA item : FeedViewDefined(item, state))
      views == [i \in 1..Len(defined) |->
                  ObjSpread(feedViewPost(defined[i], state),
                            [feedContext |-> defined[i].feedContext])]
  IN  Slice(views, limit)

\* mutant of presentation: an empty page is returned without a cursor
presentation_NoCursorOnEmptyPage(prm, skel, state) ==
  LET feed == PresentedFeed(skel, state, prm.limit)
  IN  [headers |-> ObjSpread(skel.resHeaders, [h \in {"server-timing"} |-> "skele,hydr"]),
       body |-> ObjSpread([feed |-> feed,
                           cursor |-> IF feed = <<>> THEN Undefined ELSE skel.cursor],
                          skel.passthrough)]

\* the presentation stage: headers and body of the response
presentation(prm, skel, state) ==
  [headers |-> ObjSpread(skel.resHeaders, [h \in {"server-timing"} |-> "skele,hydr"]),
   body |-> ObjSpread([feed |-> PresentedFeed(skel, state, prm.limit),
                       cursor |-> skel.cursor],
                      skel.passthrough)]

NoResponse == [kind |-> "none", headers |-> EmptyObj, body |-> EmptyObj, error |-> NoErr]
OkResponse(r) == [kind |-> "ok", headers |-> r.headers, body |-> r.body, error |-> NoErr]
ErrorResponse(e) == [kind |-> "error", headers |-> EmptyObj, body |-> EmptyObj, error |-> e]

\* what the hydrator throws when the data plane fails
HydrationError == Err("Error", Undefined, "", "dataplane unavailable", 4)

\* the headers of the requests the whole pipeline is run for
PipelineHeaders ==
  { h \in IncomingHeaders :
      \/ DOMAIN h = {}
      \/ DOMAIN h = ForwardedHeaders \cup {"cookie"} /\ h["x-bsky-topics"].array }

FeedIdle ==
  /\ pc = "off"
  /\ params = [feed |-> NoUri, limit |-> 0]
  /\ headers = EmptyObj
  /\ resolution = NoResolution
  /\ outbound = <<>>
  /\ upstream = NoUpstream
  /\ skeleton = NoSkeleton
  /\ hydration = NoHydration
  /\ response = NoResponse
  /\ stages = <<>>

\* a request arrives with headers out of H
FeedRequest(H) ==
  /\ pc = "skeleton"
  /\ params \in {[feed |-> AtUri("did:a", "app.bsky.feed.generator", "g"), limit |-> n] :
                   n \in 1..MaxLimit}
  /\ headers \in H
  /\ resolution = NoResolution
  /\ outbound = <<>>
  /\ upstream = NoUpstream
  /\ skeleton = NoSkeleton
  /\ hydration = NoHydration
  /\ response = NoResponse
  /\ stages = <<>>

FeedInit == FeedRequest(PipelineHeaders)

\* The handler built by createPipelineHandler runs the stages in order; an
\* error thrown by a stage ends the request with that error.
SkeletonStage ==
  /\ pc = "skeleton"
  /\ stages' = Append(stages, "skeleton")
  /\ \E res \in Resolutions, up \in UpstreamOutcomes :
       LET out == skeletonFromFeedGen(params, headers, res, up) IN
       /\ resolution' = res
       /\ outbound' = out.calls
       /\ upstream' = IF out.calls # <<>> THEN up ELSE NoUpstream
       /\ IF out.threw
            THEN /\ pc' = "failed"
                 /\ response' = ErrorResponse(out.error)
                 /\ UNCHANGED skeleton
            ELSE /\ pc' = "hydration"
                 /\ skeleton' = SkeletonOf(out.value)
                 /\ UNCHANGED response
  /\ UNCHANGED <<params, headers, hydration, truncVars, svcVars, pusherVars, modVars, indexVars>>

HydrationStage ==
  /\ pc = "hydration"
  /\ stages' = Append(stages, "hydration")
  /\ \/ \E h \in HydrationStates :
          /\ hydration' = h
          /\ pc' = "rules"
          /\ UNCHANGED response
     \/ /\ pc' = "failed"
        /\ response' = ErrorResponse(HydrationError)
        /\ UNCHANGED hydration
  /\ UNCHANGED <<params, headers, resolution, outbound, upstream, skeleton,
                 truncVars, svcVars, pusherVars, modVars, indexVars>>

RulesStage ==
  /\ pc = "rules"
  /\ stages' = Append(stages, "rules")
  /\ skeleton' = noBlocksOrMutes(skeleton, hydration)
  /\ pc' = "presentation"
  /\ UNCHANGED <<params, headers, resolution, outbound, upstream, hydration,
                 response, truncVars, svcVars, pusherVars, modVars, indexVars>>

\* mutant of PresentationStage: an item without a view fails the request
PresentationStage_FailsOnMissingView ==
  /\ pc = "presentation"
  /\ stages' = Append(stages, "presentation")
  /\ IF \A i \in 1..Len(skeleton.items) : FeedViewDefined(skeleton.items[i], hydration)
       THEN /\ response' = OkResponse(presentation(params, skeleton, hydration))
            /\ pc' = "done"
       ELSE /\ response' = ErrorResponse(HydrationError)
            /\ pc' = "failed"
  /\ UNCHANGED <<params, headers, resolution, outbound, upstream, skeleton,
                 hydration, truncVars, svcVars, pusherVars, modVars, indexVars>>

PresentationStage ==
  /\ pc = "presentation"
  /\ stages' = Append(stages, "presentation")
  /\ response' = OkResponse(presentation(params, skeleton, hydration))
  /\ pc' = "done"
  /\ UNCHANGED <<params, headers, resolution, outbound, upstream, skeleton,
                 hydration, truncVars, svcVars, pusherVars, modVars, indexVars>>


(***************************************************************************)
(* FeedService (pds app-view): batch loaders and embed resolution.  A map  *)
(* is a function whose domain is the set of its keys; every query and      *)
(* collaborator call a method issues is recorded with its id list.         *)
(***************************************************************************)
PostCollection    == "app.bsky.feed.post"
FeedGenCollection == "app.bsky.feed.generator"
ListCollection    == "app.bsky.graph.list"

GenA     == AtUri("did:a", FeedGenCollection, "g")
ListA    == AtUri("did:a", ListCollection, "l")
ProfileB == AtUri("did:b", "app.bsky.actor.profile", "self")

\* the uris a record embed may point at
EmbedTargets == {PostA1, PostB1, GenA, ListA, ProfileB}

\* bounds of the arguments drawn
MaxBatch == 2
MaxIds   == 2

\* post.embed: images, external, record (record.uri), recordWithMedia
\* (record.record.uri and media), or absent
Embed(type, uri, media) == [type |-> type, uri |-> uri, media |-> media]
NoEmbed == Embed("absent", NoUri, "absent")
Embeds ==
  { NoEmbed, Embed("images", NoUri, "absent"), Embed("external", NoUri, "absent") }
  \cup { Embed("record", u, "absent") : u \in EmbedTargets }
  \cup { Embed("recordWithMedia", PostA1, "images"),
         Embed("recordWithMedia", GenA, "other") }

PostRecords == { [embed |-> e] : e \in Embeds }

\* the record stored for a post (ipld_block.content): PostA1 carries images,
\* PostB1 quotes PostA1 and carries images, PostB2 has no embed
RecordOf(uri) ==
  IF uri = PostA1 THEN [embed |-> Embed("images", NoUri, "absent")]
  ELSE IF uri = PostB1 THEN [embed |-> Embed("recordWithMedia", PostA1, "images")]
  ELSE [embed |-> NoEmbed]

\* the accounts the viewer mutes through a list, with the list
ListMutes == { [d \in S |-> ListA] : S \in SUBSET Dids }
NoListMutes == [d \in {} |-> ListA]

\* The data layer: the accounts, posts, feed generators and lists that have
\* the rows the queries join, the records and accounts that are taken down
\* (takedownId set on record / repo_root), and the viewer's relationship with
\* each account.  The account did:b may have no row.
Databases ==
  { [actors |-> acs, posts |-> ps, feedGens |-> gs, lists |-> ls, rel |-> r,
     listMutes |-> NoListMutes, takedownRecords |-> {}, takedownAccounts |-> {}] :
      acs \in {Dids, {"did:a"}},
      ps \in SUBSET {PostA1, PostB1}, gs \in SUBSET {GenA}, ls \in SUBSET {ListA},
      r \in [Dids -> Relations] }

\* the data layer as getActorInfos reads it: accounts, relationships and list
\* mutes
ActorDatabases ==
  { [actors |-> acs, posts |-> {}, feedGens |-> {}, lists |-> {}, rel |-> r,
     listMutes |-> lm, takedownRecords |-> {}, takedownAccounts |-> {}] :
      acs \in {Dids, {"did:a"}}, r \in [Dids -> Relations], lm \in ListMutes }

Call(target, ids) == [target |-> target, ids |-> ids]
Ret(cs, v) == [calls |-> cs, value |-> v]

\* a label subject is the uri of a record or the did of an account; the
\* account did is written as the uri with nothing but its authority
DidSubject(did) == AtUri(did, "", "")
DidSubjects(dids) == [i \in 1..Len(dids) |-> DidSubject(dids[i])]

\* this.services.label.getLabelsForSubjects(subjects)
getLabelsForSubjects(d, subjects) ==
  Ret(<<Call("label.getLabelsForSubjects", subjects)>>, [x \in {} |-> <<>>])

\* this.services.actor.views.getListMutes(dids, requester)
getListMutes(d, dids) ==
  Ret(<<Call("actor.views.getListMutes", dids)>>,
      [x \in Range(dids) \cap DOMAIN d.listMutes |-> d.listMutes[x]])

\* this.services.graph.getListViews(uris, requester)
getListViews(d, uris) ==
  Ret(<<Call("graph.getListViews", uris)>>,
      [u \in Range(uris) \cap d.lists |-> [uri |-> u]])

\* mutant of ActorInfoOf: a mute through a list does not count as muted
ActorInfoOf_DirectMuteOnly(d, did, listMutes, skipLabels) ==
  [did |-> did,
   viewer |-> [muted |-> d.rel[did].muted,
               mutedByList |-> IF did \in DOMAIN listMutes THEN listMutes[did] ELSE NoUri,
               blockedBy |-> d.rel[did].blockedBy,
               blocking |-> d.rel[did].blocking],
   hasLabels |-> ~skipLabels]

\* the entry getActorInfos builds for one row of the query: the viewer's
\* overlay; mutedByList is NoUri when listMutes has no entry for the account
ActorInfoOf(d, did, listMutes, skipLabels) ==
  [did |-> did,
   viewer |-> [muted |-> d.rel[did].muted \/ did \in DOMAIN listMutes,
               mutedByList |-> IF did \in DOMAIN listMutes THEN listMutes[did] ELSE NoUri,
               blockedBy |-> d.rel[did].blockedBy,
               blocking |-> d.rel[did].blocking],
   hasLabels |-> ~skipLabels]

\* notSoftDeletedClause(ref): the row's takedownId is null
notSoftDeleted(takedowns, key) == key \notin takedowns

\* the rows of the getActorInfos query: did_handle joined with repo_root,
\* without the taken-down accounts unless includeSoftDeleted
ActorRows(d, dids, includeSoftDeleted) ==
  { did \in Range(dids) \cap d.actors :
      includeSoftDeleted \/ notSoftDeleted(d.takedownAccounts, did) }

\* mutant of getActorInfos: no early return for an empty list
getActorInfos_NoEmptyCheck(d, dids, skipLabels, includeSoftDeleted) ==
  LET labels == getLabelsForSubjects(d, IF skipLabels THEN <<>> ELSE DidSubjects(dids))
      listMutes == getListMutes(d, dids)
  IN  Ret(<<Call("db.did_handle", dids)>> \o labels.calls \o listMutes.calls,
          [did \in ActorRows(d, dids, includeSoftDeleted) |->
             ActorInfoOf(d, did, listMutes.value, skipLabels)])

getActorInfos(d, dids, skipLabels, includeSoftDeleted) ==
  IF Len(dids) < 1 THEN Ret(<<>>, [x \in {} |-> Undefined])
  ELSE LET labels == getLabelsForSubjects(d, IF skipLabels THEN <<>> ELSE DidSubjects(dids))
           listMutes == getListMutes(d, dids)
       IN  Ret(<<Call("db.did_handle", dids)>> \o labels.calls \o listMutes.calls,
               [did \in ActorRows(d, dids, includeSoftDeleted) |->
                  ActorInfoOf(d, did, listMutes.value, skipLabels)])

\* mutant of PostRows: the takedown of the author's account is not looked at
PostRows_IgnoresAccountTakedown(d, postUris) ==
  { u \in Range(postUris) \cap d.posts : u \notin d.takedownRecords }

\* the rows of the getPostInfos query: post joined with ipld_block, repo_root
\* and record, where neither the author's repo_root nor the record is taken
\* down
PostRows(d, postUris) ==
  { u \in Range(postUris) \cap d.posts :
      /\ notSoftDeleted(d.takedownAccounts, u.did)
      /\ notSoftDeleted(d.takedownRecords, u) }

getPostInfos(d, postUris) ==
  IF Len(postUris) < 1 THEN Ret(<<>>, [x \in {} |-> Undefined])
  ELSE Ret(<<Call("db.post", postUris)>>,
           [u \in PostRows(d, postUris) |->
              [uri |-> u, creator |-> u.did, record |-> RecordOf(u)]])

getFeedGeneratorInfos(d, generatorUris) ==
  IF Len(generatorUris) < 1 THEN Ret(<<>>, [x \in {} |-> Undefined])
  ELSE Ret(<<Call("db.feed_generator", generatorUris)>>,
           [u \in Range(generatorUris) \cap d.feedGens |-> [uri |-> u, creator |-> u.did]])

RECURSIVE nestedRecordUris(_)
nestedRecordUris(posts) ==
  IF posts = <<>> THEN <<>>
  ELSE LET embed == Head(posts).embed
           rest == nestedRecordUris(Tail(posts))
       IN  IF embed.type \in {"record", "recordWithMedia"}
             THEN <<embed.uri>> \o rest
             ELSE rest

RECURSIVE DedupeSeq(_)
\* [...new Set(xs)]: the first occurrence of each element, in order
DedupeSeq(xs) ==
  IF xs = <<>> THEN <<>>
  ELSE LET front == DedupeSeq(SubSeq(xs, 1, Len(xs) - 1))
           last == xs[Len(xs)]
       IN  IF last \in Range(front) THEN front ELSE Append(front, last)

View(type, uri) == [type |-> type, uri |-> uri, embeds |-> <<>>]
NoView == View("", NoUri)

\* getRecordEmbedView(uri, post, embeds): the view of a record embed that
\* points at a post; present is FALSE when post is undefined
getRecordEmbedView(uri, present, viewer, embeds) ==
  IF ~present THEN View("app.bsky.embed.record#viewNotFound", uri)
  ELSE IF viewer.blocking \/ viewer.blockedBy
    THEN View("app.bsky.embed.record#viewBlocked", uri)
    ELSE [type |-> "app.bsky.embed.record#viewRecord", uri |-> uri, embeds |-> embeds]

\* mutant of RecordEmbedViewFor: the not-found view is given only to uris of
\* collections the method does not know
RecordEmbedViewFor_SkipsMissing(uri, postInfos, feedGenInfos, listViews) ==
  IF uri.collection = FeedGenCollection /\ uri \in DOMAIN feedGenInfos
    THEN [assigned |-> TRUE, view |-> View("app.bsky.feed.defs#generatorView", uri)]
  ELSE IF uri.collection = ListCollection /\ uri \in DOMAIN listViews
    THEN [assigned |-> TRUE, view |-> View("app.bsky.graph.defs#listView", uri)]
  ELSE IF uri.collection \in {PostCollection, FeedGenCollection, ListCollection}
    THEN [assigned |-> FALSE, view |-> NoView]
  ELSE [assigned |-> TRUE, view |-> View("app.bsky.embed.record#viewNotFound", uri)]

\* One round of the loop of nestedRecordViews over nestedUris: whether
\* recordEmbedViews[uri] is assigned, and the view assigned.  In the branch of
\* a hydrated post the code formats the post into a local and assigns nothing.
RecordEmbedViewFor(uri, postInfos, feedGenInfos, listViews) ==
  IF uri.collection = FeedGenCollection /\ uri \in DOMAIN feedGenInfos
    THEN [assigned |-> TRUE, view |-> View("app.bsky.feed.defs#generatorView", uri)]
  ELSE IF uri.collection = ListCollection /\ uri \in DOMAIN listViews
    THEN [assigned |-> TRUE, view |-> View("app.bsky.graph.defs#listView", uri)]
  ELSE IF uri.collection = PostCollection /\ uri \in DOMAIN postInfos
    THEN [assigned |-> FALSE, view |-> NoView]
  ELSE [assigned |-> TRUE, view |-> View("app.bsky.embed.record#viewNotFound", uri)]

nestedRecordViews(d, posts) ==
  LET nestedUris == nestedRecordUris(posts) IN
  IF Len(nestedUris) < 1 THEN Ret(<<>>, [x \in {} |-> NoView])
  ELSE
    LET nestedPostUris == SelectSeq(nestedUris, LAMBDA u : u.collection = PostCollection)
        nestedFeedGenUris == SelectSeq(nestedUris, LAMBDA u : u.collection = FeedGenCollection)
        nestedListUris == SelectSeq(nestedUris, LAMBDA u : u.collection = ListCollection)
        nestedDids == DedupeSeq([i \in 1..Len(nestedUris) |-> nestedUris[i].did])
        postInfos == getPostInfos(d, nestedPostUris)
        actorInfos == getActorInfos(d, nestedDids, TRUE, FALSE)
        labelViews == getLabelsForSubjects(d, nestedPostUris \o DidSubjects(nestedDids))
        feedGenInfos == getFeedGeneratorInfos(d, nestedFeedGenUris)
        listViews == getListViews(d, nestedListUris)
        for(u) == RecordEmbedViewFor(u, postInfos.value, feedGenInfos.value, listViews.value)
    IN  Ret(postInfos.calls \o actorInfos.calls \o labelViews.calls
              \o feedGenInfos.calls \o listViews.calls,
            [u \in {x \in Range(nestedUris) : for(x).assigned} |-> for(u).view])

\* mutant of postRecordsFromInfos: the records of the infos are returned
postRecordsFromInfos_Decodes(infos) ==
  LET uris == SelectSeq(<<PostA1, PostB1, PostB2>>, LAMBDA u : u \in DOMAIN infos)
  IN  [i \in 1..Len(uris) |-> [uri |-> uris[i], record |-> infos[uris[i]].record]]

\* postRecordsFromInfos(infos): the entries [uri, record] of the map returned;
\* the method returns an empty object whatever infos holds
postRecordsFromInfos(infos) == <<>>

\* the embed view embedsForPosts assigns for one post, if any
PostEmbedViewFor(post, recordEmbedViews) ==
  LET e == post.embed
      recordView == IF e.uri \in DOMAIN recordEmbedViews
                      THEN recordEmbedViews[e.uri] ELSE NoView
  IN  IF e.type = "images"
        THEN [assigned |-> TRUE, type |-> "app.bsky.embed.images#view",
              record |-> NoView, media |-> "images"]
      ELSE IF e.type = "external"
        THEN [assigned |-> TRUE, type |-> "app.bsky.embed.external#view",
              record |-> NoView, media |-> "external"]
      ELSE IF e.type = "record"
        THEN [assigned |-> TRUE, type |-> recordView.type,
              record |-> recordView, media |-> "absent"]
      ELSE IF e.type = "recordWithMedia" /\ e.media \in {"images", "external"}
        THEN [assigned |-> TRUE, type |-> "app.bsky.embed.recordWithMedia#view",
              record |-> recordView, media |-> e.media]
      ELSE [assigned |-> FALSE, type |-> "", record |-> NoView, media |-> "absent"]

embedsForPosts(d, postInfos, excludeNested) ==
  LET postMap == postRecordsFromInfos(postInfos)
      posts == [i \in 1..Len(postMap) |-> postMap[i].record]
  IN  IF Len(posts) < 1 THEN Ret(<<>>, [x \in {} |-> NoView])
      ELSE LET nested == IF excludeNested THEN Ret(<<>>, [x \in {} |-> NoView])
                         ELSE nestedRecordViews(d, posts)
               for(i) == PostEmbedViewFor(postMap[i].record, nested.value)
           IN  Ret(nested.calls,
                   [u \in {postMap[i].uri : i \in {j \in 1..Len(postMap) : for(j).assigned}} |->
                      for(CHOOSE i \in 1..Len(postMap) :
                            /\ postMap[i].uri = u
                            /\ \A j \in 1..Len(postMap) : postMap[j].uri = u => j <= i)])

Op(name, ids, posts, skipLabels, includeSoftDeleted) ==
  [name |-> name, ids |-> ids, posts |-> posts, skipLabels |-> skipLabels,
   includeSoftDeleted |-> includeSoftDeleted]
NoOp == Op("none", <<>>, <<>>, FALSE, FALSE)

\* the rows hydrateFeed is given: the post, who put it in the feed (its author,
\* or the account that reposted it), and the reply pointers of the post
FeedRow(postUri, originatorDid, replyParent, replyRoot) ==
  [postUri |-> postUri, postAuthorDid |-> postUri.did, originatorDid |-> originatorDid,
   replyParent |-> replyParent, replyRoot |-> replyRoot]
FeedRows ==
  { FeedRow(PostA1, "did:a", NoUri, NoUri),
    FeedRow(PostB1, "did:a", NoUri, NoUri),
    FeedRow(PostB1, "did:b", PostA1, PostA1),
    FeedRow(PostB2, "did:b", PostB1, PostA1) }

\* bound of the rows of one hydrateFeed call
MaxRows == 2

RECURSIVE ActorDidsOf(_)
\* the dids hydrateFeed adds to actorDids, in the order of the adds
ActorDidsOf(items) ==
  IF items = <<>> THEN <<>>
  ELSE LET item == Head(items) IN
    <<item.postAuthorDid>>
    \o (IF item.postAuthorDid # item.originatorDid THEN <<item.originatorDid>> ELSE <<>>)
    \o (IF item.replyParent # NoUri THEN <<item.replyParent.did>> ELSE <<>>)
    \o (IF item.replyRoot # NoUri THEN <<item.replyRoot.did>> ELSE <<>>)
    \o ActorDidsOf(Tail(items))

RECURSIVE PostUrisOf_NoReplyRoot(_)
\* mutant of PostUrisOf: the reply root is not added
PostUrisOf_NoReplyRoot(items) ==
  IF items = <<>> THEN <<>>
  ELSE LET item == Head(items) IN
    <<item.postUri>>
    \o (IF item.replyParent # NoUri THEN <<item.replyParent>> ELSE <<>>)
    \o PostUrisOf_NoReplyRoot(Tail(items))

RECURSIVE PostUrisOf(_)
\* the uris hydrateFeed adds to postUris, in the order of the adds
PostUrisOf(items) ==
  IF items = <<>> THEN <<>>
  ELSE LET item == Head(items) IN
    <<item.postUri>>
    \o (IF item.replyParent # NoUri THEN <<item.replyParent>> ELSE <<>>)
    \o (IF item.replyRoot # NoUri THEN <<item.replyRoot>> ELSE <<>>)
    \o PostUrisOf(Tail(items))

\* this.views.formatFeed(items, actors, posts, embeds, labels): one view per
\* row whose post and accounts were hydrated, with the overlay of the author
\* and of the account that reposted, and the embed view of the post
formatFeed(items, actors, posts, embeds) ==
  LET shown == SelectSeq(items, LAMBDA item :
                 /\ item.postUri \in DOMAIN posts
                 /\ item.postAuthorDid \in DOMAIN actors
                 /\ item.originatorDid \in DOMAIN actors)
  IN  [i \in 1..Len(shown) |->
         [post |-> shown[i].postUri,
          author |-> actors[shown[i].postAuthorDid],
          reposted |-> shown[i].originatorDid # shown[i].postAuthorDid,
          by |-> actors[shown[i].originatorDid],
          embed |-> IF shown[i].postUri \in DOMAIN embeds
                      THEN embeds[shown[i].postUri] ELSE NoView]]

\* the three fetches hydrateFeed hands to Promise.all
Fetches == {"actors", "posts", "labels"}

\* pending: the fetches started and not settled; failed: the fetch whose
\* rejection rejected Promise.all; embedsStarted: embedsForPosts was called
Hydrate(at, items, actors, posts, embeds) ==
  [pc |-> at, items |-> items, actors |-> actors, posts |-> posts, embeds |-> embeds,
   pending |-> {}, failed |-> "none", embedsStarted |-> FALSE]
HydrateIdle == Hydrate("off", <<>>, EmptyObj, EmptyObj, EmptyObj)

SvcIdle ==
  /\ hydrate = HydrateIdle
  /\ db = [actors |-> {}, posts |-> {}, feedGens |-> {}, lists |-> {},
           rel |-> [d \in Dids |-> Rel(FALSE, FALSE, FALSE)],
           listMutes |-> NoListMutes, takedownRecords |-> {}, takedownAccounts |-> {}]
  /\ op = NoOp
  /\ calls = <<>>
  /\ result = EmptyObj

\* the service over a data layer out of D
SvcOver(D) ==
  /\ hydrate = HydrateIdle
  /\ db \in D
  /\ op = NoOp
  /\ calls = <<>>
  /\ result = EmptyObj

SvcInit == SvcOver(Databases)

\* one call of a FeedService method: its calls and its result
Finish(o, ret) ==
  /\ op = NoOp
  /\ op' = o
  /\ calls' = ret.calls
  /\ result' = ret.value
  /\ UNCHANGED <<db, hydrate, truncVars, feedVars, pusherVars, modVars, indexVars>>

GetActorInfos ==
  \E dids \in SeqsUpTo(Dids, MaxIds), skipLabels \in BOOLEAN, includeSoftDeleted \in BOOLEAN :
    Finish(Op("getActorInfos", dids, <<>>, skipLabels, includeSoftDeleted),
           getActorInfos(db, dids, skipLabels, includeSoftDeleted))

GetPostInfos ==
  \E uris \in SeqsUpTo({PostA1, PostB1}, MaxIds) :
    Finish(Op("getPostInfos", uris, <<>>, FALSE, FALSE), getPostInfos(db, uris))

GetFeedGeneratorInfos ==
  \E uris \in SeqsUpTo({GenA}, MaxIds) :
    Finish(Op("getFeedGeneratorInfos", uris, <<>>, FALSE, FALSE), getFeedGeneratorInfos(db, uris))

NestedRecordViews ==
  \E posts \in SeqsUpTo(PostRecords, MaxBatch) :
    Finish(Op("nestedRecordViews", <<>>, posts, FALSE, FALSE), nestedRecordViews(db, posts))

EmbedsForPosts ==
  \E uris \in SeqsUpTo({PostA1, PostB1}, MaxIds) :
    Finish(Op("embedsForPosts", uris, <<>>, FALSE, FALSE),
           embedsForPosts(db, getPostInfos(db, uris).value, FALSE))

\* the data layer with takedowns: both accounts and any of the posts have
\* their rows, and any of them may be taken down
TakedownDatabases ==
  { [actors |-> Dids, posts |-> ps, feedGens |-> {}, lists |-> {},
     rel |-> [d \in Dids |-> Rel(FALSE, FALSE, FALSE)], listMutes |-> NoListMutes,
     takedownRecords |-> tr, takedownAccounts |-> ta] :
      ps \in SUBSET {PostA1, PostB1}, tr \in SUBSET {PostA1, PostB1},
      ta \in SUBSET Dids }

\* the data layer hydrateFeed runs over: both accounts are there
HydrateDatabases ==
  { d \in Databases : d.actors = Dids /\ d.feedGens = {} /\ d.lists = {} }

\* hydrateFeed is called with a batch of rows
HydrateInit ==
  /\ db \in HydrateDatabases
  /\ op = NoOp
  /\ calls = <<>>
  /\ result = EmptyObj
  /\ hydrate \in { Hydrate("read", items, EmptyObj, EmptyObj, EmptyObj) :
                     items \in SeqsUpTo(FeedRows, MaxRows) }

\* hydrateFeed up to its first await: the ids are collected into Sets and the
\* reads of the accounts, the posts and the labels are started, all three
\* before Promise.all awaits any of them
HydrateRead ==
  /\ hydrate.pc = "read"
  /\ LET actorDids == DedupeSeq(ActorDidsOf(hydrate.items))
         postUris == DedupeSeq(PostUrisOf(hydrate.items))
         actors == getActorInfos(db, actorDids, TRUE, FALSE)
         posts == getPostInfos(db, postUris)
         labels == getLabelsForSubjects(db, postUris \o DidSubjects(actorDids))
     IN  /\ calls' = calls \o actors.calls \o posts.calls \o labels.calls
         /\ hydrate' = [hydrate EXCEPT !.pc = "await", !.pending = Fetches]
  /\ op' = Op("hydrateFeed", <<>>, <<>>, TRUE, FALSE)
  /\ UNCHANGED <<db, result, truncVars, feedVars, pusherVars, modVars, indexVars>>

\* mutant of HydrateSettled: a rejected fetch counts as settled and the call
\* goes on
HydrateSettled_IgnoresRejection(h, d, fetch, ok) ==
  LET actorDids == DedupeSeq(ActorDidsOf(h.items))
      postUris == DedupeSeq(PostUrisOf(h.items))
      left == h.pending \ {fetch}
  IN  [h EXCEPT
         !.pending = left,
         !.failed = IF ok THEN @ ELSE fetch,
         !.pc = IF left = {} THEN "embeds" ELSE "await",
         !.actors = IF fetch = "actors" /\ ok
                      THEN getActorInfos(d, actorDids, TRUE, FALSE).value ELSE @,
         !.posts = IF fetch = "posts" /\ ok THEN getPostInfos(d, postUris).value ELSE @]

\* hydrateFeed after one of the three fetches settled: Promise.all resolves
\* when the last of them has fulfilled and rejects as soon as one rejects, and
\* the await then throws out of hydrateFeed
HydrateSettled(h, d, fetch, ok) ==
  LET actorDids == DedupeSeq(ActorDidsOf(h.items))
      postUris == DedupeSeq(PostUrisOf(h.items))
      left == h.pending \ {fetch}
  IN  IF ~ok THEN [h EXCEPT !.pc = "failed", !.failed = fetch, !.pending = left]
      ELSE [h EXCEPT
              !.pending = left,
              !.pc = IF left = {} THEN "embeds" ELSE "await",
              !.actors = IF fetch = "actors"
                           THEN getActorInfos(d, actorDids, TRUE, FALSE).value ELSE @,
              !.posts = IF fetch = "posts" THEN getPostInfos(d, postUris).value ELSE @]

\* one of the fetches of Promise.all fulfils or rejects
HydrateSettle ==
  /\ hydrate.pc = "await"
  /\ \E fetch \in hydrate.pending, ok \in BOOLEAN :
       hydrate' = HydrateSettled(hydrate, db, fetch, ok)
  /\ UNCHANGED <<db, op, calls, result, truncVars, feedVars, pusherVars, modVars, indexVars>>

\* const embeds = await this.embedsForPosts(posts, requester)
HydrateEmbeds ==
  /\ hydrate.pc = "embeds"
  /\ LET embeds == embedsForPosts(db, hydrate.posts, FALSE)
     IN  /\ calls' = calls \o embeds.calls
         /\ hydrate' = [hydrate EXCEPT !.pc = "format", !.embeds = embeds.value,
                                       !.embedsStarted = TRUE]
  /\ UNCHANGED <<db, op, result, truncVars, feedVars, pusherVars, modVars, indexVars>>

\* return this.views.formatFeed(...)
HydrateFormat ==
  /\ hydrate.pc = "format"
  /\ result' = formatFeed(hydrate.items, hydrate.actors, hydrate.posts, hydrate.embeds)
  /\ hydrate' = [hydrate EXCEPT !.pc = "done"]
  /\ UNCHANGED <<db, op, calls, truncVars, feedVars, pusherVars, modVars, indexVars>>

\* another request creates or removes a block or a mute between the viewer
\* and an account while hydrateFeed is in flight
RelationChanges ==
  /\ hydrate.pc \in {"read", "await", "embeds", "format"}
  /\ \E did \in Dids, r \in Relations :
       /\ r # db.rel[did]
       /\ db' = [db EXCEPT !.rel[did] = r]
  /\ UNCHANGED <<op, calls, result, hydrate, truncVars, feedVars, pusherVars, modVars, indexVars>>


(***************************************************************************)
(* EventPusher (ozone daemon)                                              *)
(***************************************************************************)
\* a nullable column or an optional field: Null, or Some(v)
Null == <<>>
Some(v) == <<v>>

\* the three poll loops and their tables: repo_push_event, record_push_event,
\* blob_push_event
Loops == {"repo", "record", "blob"}

\* bound of the push rounds of one poll loop
MaxRounds == 2
\* bound of the clock
MaxClock == 2
\* bound of the rounds of the repo loop when it is followed on its own
MaxLoopRounds == 6

\* the keys of the rows of a push event table
EventIds == {"e1", "e2"}

PushEvent(confirmedAt, lastAttempted, attempts) ==
  [confirmedAt |-> confirmedAt, lastAttempted |-> lastAttempted, attempts |-> attempts]

\* the rows with confirmedAt null
Unconfirmed(table) == { e \in DOMAIN table : table[e].confirmedAt = Null }

\* what retryHttp(() => fn(agent)) comes to for the two agents: TRUE when the
\* request was accepted in the end
PushOutcome(appview, moderation) == [appview |-> appview, moderation |-> moderation]
PushOutcomes == { PushOutcome(a, m) : a \in BOOLEAN, m \in BOOLEAN }

\* mutant of pushToBoth: one accepted request is enough
pushToBoth_EitherSucceeds(o) == o.appview \/ o.moderation

\* pushToBoth: Promise.all of the two requests; a rejection is caught and
\* gives false
pushToBoth(o) == o.appview /\ o.moderation

\* attemptRepoEvent(txn, evt): the row after the attempt made at time t;
\* 'evt.attempts ?? 0 + 1' is 'evt.attempts ?? (0 + 1)'
attemptRepoEvent(evt, o, t) ==
  IF pushToBoth(o)
    THEN [evt EXCEPT !.confirmedAt = Some(t)]
    ELSE [evt EXCEPT !.lastAttempted = Some(t),
                     !.attempts = IF evt.attempts # Null THEN evt.attempts ELSE Some(0 + 1)]

attemptRecordEvent(evt, o, t) ==
  IF pushToBoth(o)
    THEN [evt EXCEPT !.confirmedAt = Some(t)]
    ELSE [evt EXCEPT !.lastAttempted = Some(t),
                     !.attempts = IF evt.attempts # Null THEN evt.attempts ELSE Some(0 + 1)]

attemptBlobEvent(evt, o, t) ==
  IF pushToBoth(o)
    THEN [evt EXCEPT !.confirmedAt = Some(t)]
    ELSE [evt EXCEPT !.lastAttempted = Some(t),
                     !.attempts = IF evt.attempts # Null THEN evt.attempts ELSE Some(0 + 1)]

\* the outcome of a push function: it threw, or returned value; table is the
\* table after the transaction
Pushed(threw, value, table) == [threw |-> threw, value |-> value, table |-> table]

\* One transaction of a push function over its table: the unconfirmed rows
\* are selected and locked, each is attempted, and the updates are committed.
\* dbOk is FALSE when a statement of the transaction fails: the transaction
\* is rolled back and the function throws.
PushTransaction(k, table, outcomes, dbOk, t) ==
  LET toPush == Unconfirmed(table)
      attempt(evt, o, at) ==
        IF k = "repo" THEN attemptRepoEvent(evt, o, at)
        ELSE IF k = "record" THEN attemptRecordEvent(evt, o, at)
        ELSE attemptBlobEvent(evt, o, at)
  IN
  IF ~dbOk THEN Pushed(TRUE, FALSE, table)
  ELSE IF toPush = {} THEN Pushed(FALSE, FALSE, table)
  ELSE Pushed(FALSE, TRUE,
              [e \in DOMAIN table |->
                 IF e \in toPush THEN attempt(table[e], outcomes[e], t) ELSE table[e]])

pushRepoEvents(table, outcomes, dbOk, t) ==
  PushTransaction("repo", table, outcomes, dbOk, t)

pushRecordEvents(table, outcomes, dbOk, t) ==
  PushTransaction("record", table, outcomes, dbOk, t)

pushBlobEvents(table, outcomes, dbOk, t) ==
  PushTransaction("blob", table, outcomes, dbOk, t)

\* the fn of the poll loop k
PushFn(k, table, outcomes, dbOk, t) ==
  IF k = "repo" THEN pushRepoEvents(table, outcomes, dbOk, t)
  ELSE IF k = "record" THEN pushRecordEvents(table, outcomes, dbOk, t)
  ELSE pushBlobEvents(table, outcomes, dbOk, t)

\* what is kept of the last call of a push function
PushLog(fn, before, outcomes, dbOk, at, threw, value) ==
  [fn |-> fn, before |-> before, outcomes |-> outcomes, dbOk |-> dbOk, at |-> at,
   threw |-> threw, value |-> value]
NoPush == PushLog("none", EmptyObj, EmptyObj, TRUE, 1, FALSE, FALSE)

\* A PollState (timer, promise, tries) and what the runtime holds for its
\* loop: rounds counts the calls of fn, chains are the rounds whose promise
\* chain has not run its finally, timers are the pending timeouts, timersSet
\* counts the calls of setTimeout.  promise is Null for the Promise.resolve()
\* of the constructor and Some(round) after; timer is the handle of the last
\* setTimeout and delay the milliseconds it was set with.
PollState(timer, promise, tries) ==
  [timer |-> timer, promise |-> promise, tries |-> tries,
   rounds |-> 0, chains |-> {}, timers |-> {}, timersSet |-> 0, delay |-> Null]

\* SECOND of @atproto/common, in milliseconds
SECOND == 1000

\* mutant of exponentialBackoff: the delay is not capped
exponentialBackoff_Uncapped(tries) == 10 ^ tries

\* exponentialBackoff(tries): Math.min(Math.pow(10, tries), 30 * SECOND)
exponentialBackoff(tries) ==
  IF 10 ^ tries < 30 * SECOND THEN 10 ^ tries ELSE 30 * SECOND

\* mutant of poll: the destroyed flag is not looked at
poll_IgnoresDestroyed(state, destroyed) ==
  [state EXCEPT !.rounds = @ + 1,
                !.chains = @ \cup {state.rounds + 1},
                !.promise = Some(state.rounds + 1)]

\* mutant of poll: the timer of the next round is set when the round starts
poll_TimerAtStart(state, destroyed) ==
  IF destroyed THEN state
  ELSE [state EXCEPT !.rounds = @ + 1,
                     !.chains = @ \cup {state.rounds + 1},
                     !.promise = Some(state.rounds + 1),
                     !.timersSet = @ + 1,
                     !.timers = @ \cup {state.timersSet + 1},
                     !.timer = Some(state.timersSet + 1),
                     !.delay = Some(exponentialBackoff(state.tries))]

\* poll(state, fn) up to the return: nothing when destroyed, else fn is
\* called and state.promise is its chain
poll(state, destroyed) ==
  IF destroyed THEN state
  ELSE [state EXCEPT !.rounds = @ + 1,
                     !.chains = @ \cup {state.rounds + 1},
                     !.promise = Some(state.rounds + 1)]

\* mutant of settled: a round that threw sets no timeout
settled_NoTimerAfterThrow(state, c, r) ==
  LET tries == IF ~r.threw /\ r.value THEN 0 ELSE state.tries + 1 IN
  IF r.threw
    THEN [state EXCEPT !.tries = tries, !.chains = @ \ {c}]
    ELSE [state EXCEPT !.tries = tries,
                       !.chains = @ \ {c},
                       !.timersSet = @ + 1,
                       !.timers = @ \cup {state.timersSet + 1},
                       !.timer = Some(state.timersSet + 1),
                       !.delay = Some(exponentialBackoff(tries))]

\* the callbacks of the chain of round c once fn has settled with r: then or
\* catch set tries, finally sets the timer of the next round
settled(state, c, r) ==
  LET tries == IF ~r.threw /\ r.value THEN 0 ELSE state.tries + 1 IN
  [state EXCEPT !.tries = tries,
                !.chains = @ \ {c},
                !.timersSet = @ + 1,
                !.timers = @ \cup {state.timersSet + 1},
                !.timer = Some(state.timersSet + 1),
                !.delay = Some(exponentialBackoff(tries))]

\* destroyState(state): clearTimeout of the handle, which does nothing for a
\* timeout that has fired
destroyState(state) ==
  [state EXCEPT !.timers = IF state.timer # Null THEN @ \ {state.timer[1]} ELSE @]

\* the promise destroyState returns is pending
PromisePending(state) ==
  state.promise # Null /\ state.promise[1] \in state.chains

\* The pusher: the destroyed flag, whether start() was called, the destroy()
\* call (idle, pending, resolved) with the pending promises it awaits, and
\* for each loop the rounds in flight and the number of rounds at the time of
\* the destroy() call.
Pusher(destroyed, started, destroy, awaited, inFlight, roundsThen) ==
  [destroyed |-> destroyed, started |-> started, destroy |-> destroy,
   awaited |-> awaited, inFlight |-> inFlight, roundsThen |-> roundsThen]
NewPusher ==
  Pusher(FALSE, FALSE, "idle", {}, [k \in Loops |-> {}], [k \in Loops |-> 0])

PusherIdle ==
  /\ pusher = NewPusher
  /\ pollState = [k \in Loops |-> PollState(Null, Null, 0)]
  /\ events = [k \in Loops |-> EmptyObj]
  /\ now = 1
  /\ pushlog = NoPush
  /\ accepting = FALSE

\* a constructed EventPusher; each table has one row that is not confirmed
PollInit ==
  /\ pusher = NewPusher
  /\ pollState = [k \in Loops |-> PollState(Null, Null, 0)]
  /\ events = [k \in Loops |-> [e \in {"e1"} |-> PushEvent(Null, Null, Null)]]
  /\ now = 1
  /\ pushlog = NoPush
  /\ accepting = FALSE

\* the tables the push functions are called over: two rows in repo_push_event,
\* one of them attempted before, and one row in each of the other tables
PushInit ==
  /\ pusher = NewPusher
  /\ pollState = [k \in Loops |-> PollState(Null, Null, 0)]
  /\ events = [k \in Loops |->
                 IF k = "repo"
                   THEN [e \in EventIds |->
                           IF e = "e1" THEN PushEvent(Null, Null, Null)
                           ELSE PushEvent(Null, Some(1), Some(0))]
                   ELSE [e \in {"e1"} |-> PushEvent(Null, Null, Null)]]
  /\ now = 1
  /\ pushlog = NoPush
  /\ accepting = FALSE

\* start(): the three calls of poll
Start ==
  /\ ~pusher.started
  /\ pusher' = [pusher EXCEPT !.started = TRUE]
  /\ pollState' = [k \in Loops |-> poll(pollState[k], pusher.destroyed)]
  /\ UNCHANGED <<events, now, pushlog, accepting, truncVars, feedVars, svcVars, modVars, indexVars>>

\* the push function of a round of loop k settles and the callbacks of the
\* chain run
SettleRound(k) ==
  \E c \in pollState[k].chains, dbOk \in BOOLEAN,
     outcomes \in [Unconfirmed(events[k]) -> PushOutcomes] :
    LET r == PushFn(k, events[k], outcomes, dbOk, now) IN
    /\ accepting => (dbOk /\ \A e \in DOMAIN outcomes : outcomes[e] = PushOutcome(TRUE, TRUE))
    /\ events' = [events EXCEPT ![k] = r.table]
    /\ pushlog' = PushLog(k, events[k], outcomes, dbOk, now, r.threw, r.value)
    /\ pollState' = [pollState EXCEPT ![k] = settled(@, c, r)]
    /\ UNCHANGED <<pusher, now, accepting, truncVars, feedVars, svcVars, modVars, indexVars>>

\* a timeout of loop k fires: () => this.poll(state, fn); the loop is
\* followed for cap rounds
TimerFiresWithin(k, cap) ==
  \E t \in pollState[k].timers :
    /\ pusher.destroyed \/ pollState[k].rounds < cap
    /\ pollState' = [pollState EXCEPT
                       ![k] = poll([@ EXCEPT !.timers = @ \ {t}], pusher.destroyed)]
    /\ UNCHANGED <<pusher, events, now, pushlog, accepting, truncVars, feedVars, svcVars, modVars, indexVars>>

TimerFires(k) == TimerFiresWithin(k, MaxRounds)

\* the environment: from now on both push targets accept every request and
\* the transactions commit; every loop can still run a round
TargetsAccept ==
  /\ ~accepting
  /\ \A k \in Loops : pollState[k].rounds < MaxRounds
  /\ accepting' = TRUE
  /\ UNCHANGED <<pusher, pollState, events, now, pushlog, truncVars, feedVars, svcVars, modVars, indexVars>>

\* the repo loop followed for more rounds
RepoRoundSettles == SettleRound("repo")
RepoTimerFires == TimerFiresWithin("repo", MaxLoopRounds)

\* destroy() up to its await
Destroy ==
  /\ pusher.destroy = "idle"
  /\ pusher' = [pusher EXCEPT
                  !.destroyed = TRUE,
                  !.destroy = "pending",
                  !.awaited = { <<k, pollState[k].promise[1]>> :
                                  k \in { l \in Loops : PromisePending(pollState[l]) } },
                  !.inFlight = [k \in Loops |-> pollState[k].chains],
                  !.roundsThen = [k \in Loops |-> pollState[k].rounds]]
  /\ pollState' = [k \in Loops |-> destroyState(pollState[k])]
  /\ UNCHANGED <<events, now, pushlog, accepting, truncVars, feedVars, svcVars, modVars, indexVars>>

\* the Promise.all of destroy() resolves: the three promises it was given
\* have resolved
DestroyResolves ==
  /\ pusher.destroy = "pending"
  /\ \A a \in pusher.awaited : a[2] \notin pollState[a[1]].chains
  /\ pusher' = [pusher EXCEPT !.destroy = "resolved"]
  /\ UNCHANGED <<pollState, events, now, pushlog, accepting, truncVars, feedVars, svcVars, modVars, indexVars>>

\* one call of the push function of table k, as processAll makes them
PushCall(k) ==
  \E dbOk \in BOOLEAN, outcomes \in [Unconfirmed(events[k]) -> PushOutcomes] :
    LET r == PushFn(k, events[k], outcomes, dbOk, now) IN
    /\ events' = [events EXCEPT ![k] = r.table]
    /\ pushlog' = PushLog(k, events[k], outcomes, dbOk, now, r.threw, r.value)
    /\ UNCHANGED <<pusher, pollState, now, accepting, truncVars, feedVars, svcVars, modVars, indexVars>>

PushRepoEvents == PushCall("repo")
PushRecordEvents == PushCall("record")
PushBlobEvents == PushCall("blob")

\* time passes
Tick ==
  /\ now < MaxClock
  /\ now' = now + 1
  /\ UNCHANGED <<pusher, pollState, events, pushlog, accepting, truncVars, feedVars, svcVars, modVars, indexVars>>


(***************************************************************************)
(* Moderation subject status (adjustModerationSubjectStatus)               *)
(***************************************************************************)

REVIEWOPEN == "com.atproto.admin.defs#reviewOpen"
REVIEWCLOSED == "com.atproto.admin.defs#reviewClosed"
REVIEWESCALATED == "com.atproto.admin.defs#reviewEscalated"

\* HOUR of @atproto/common, in milliseconds
HOUR == 3600000

ModActions ==
  { "com.atproto.admin.defs#modEventAcknowledge",
    "com.atproto.admin.defs#modEventReport",
    "com.atproto.admin.defs#modEventEscalate",
    "com.atproto.admin.defs#modEventReverseTakedown",
    "com.atproto.admin.defs#modEventUnmute",
    "com.atproto.admin.defs#modEventTakedown",
    "com.atproto.admin.defs#modEventMute",
    "com.atproto.admin.defs#modEventComment",
    "com.atproto.admin.defs#modEventLabel" }

\* a JavaScript number | null used as a condition
TruthyNumber(n) == n # Null /\ n[1] # 0

\* getSubjectStatusForModerationEvent({ action, createdBy, durationInHours }):
\* the columns the event sets, or null; t is what new Date() and Date.now()
\* read
getSubjectStatusForModerationEvent(action, createdBy, durationInHours, t) ==
  CASE action = "com.atproto.admin.defs#modEventAcknowledge" ->
         Some([lastReviewedBy |-> Some(createdBy), reviewState |-> REVIEWCLOSED,
               lastReviewedAt |-> Some(t)])
    [] action = "com.atproto.admin.defs#modEventReport" ->
         Some([reviewState |-> REVIEWOPEN, lastReportedAt |-> Some(t)])
    [] action = "com.atproto.admin.defs#modEventEscalate" ->
         Some([lastReviewedBy |-> Some(createdBy), reviewState |-> REVIEWESCALATED,
               lastReviewedAt |-> Some(t)])
    [] action = "com.atproto.admin.defs#modEventReverseTakedown" ->
         Some([lastReviewedBy |-> Some(createdBy), reviewState |-> REVIEWCLOSED,
               takendown |-> FALSE, suspendUntil |-> Null,
               lastReviewedAt |-> Some(t)])
    [] action = "com.atproto.admin.defs#modEventUnmute" ->
         Some([lastReviewedBy |-> Some(createdBy), muteUntil |-> Null,
               reviewState |-> REVIEWOPEN, lastReviewedAt |-> Some(t)])
    [] action = "com.atproto.admin.defs#modEventTakedown" ->
         Some([takendown |-> TRUE, lastReviewedBy |-> Some(createdBy),
               reviewState |-> REVIEWCLOSED, lastReviewedAt |-> Some(t),
               suspendUntil |-> IF TruthyNumber(durationInHours)
                                  THEN Some(t + durationInHours[1] * HOUR) ELSE Null])
    [] action = "com.atproto.admin.defs#modEventMute" ->
         Some([lastReviewedBy |-> Some(createdBy), reviewState |-> REVIEWOPEN,
               lastReviewedAt |-> Some(t),
               muteUntil |-> Some(t + (IF TruthyNumber(durationInHours)
                                         THEN durationInHours[1] ELSE 24) * HOUR)])
    [] action = "com.atproto.admin.defs#modEventComment" ->
         Some([lastReviewedBy |-> Some(createdBy), lastReviewedAt |-> Some(t)])
    [] OTHER -> Null

\* a row of moderation_event: subjectUri is NoUri for a repo subject
ModerationEvent(action, createdBy, durationInHours, subjectDid, subjectUri, subjectCid, sticky, comment) ==
  [action |-> action, createdBy |-> createdBy, durationInHours |-> durationInHours,
   subjectDid |-> subjectDid, subjectUri |-> subjectUri, subjectCid |-> subjectCid,
   sticky |-> sticky, comment |-> comment]

\* subject is a string that starts with 'did:' or an at-uri
ValidSubject(subjectDid, subjectUri) == subjectUri # NoUri \/ subjectDid \in Dids

\* getStatusIdentifierFromSubject(subjectUri || subjectDid)
getStatusIdentifierFromSubject(subjectDid, subjectUri) ==
  IF subjectUri = NoUri
    THEN [did |-> subjectDid, recordPath |-> ""]
    ELSE [did |-> subjectUri.did,
          recordPath |-> subjectUri.collection \o "/" \o subjectUri.rkey]

\* the values of the columns of moderation_subject_status an insert does not
\* name
StatusColumnDefaults ==
  [takendown |-> FALSE, suspendUntil |-> Null, muteUntil |-> Null,
   lastReviewedBy |-> Null, lastReviewedAt |-> Null, lastReportedAt |-> Null]

\* the rows of the table that conflict with a row on moderation_status_unique_idx
StatusConflicts(table, row) ==
  { r \in table : r.did = row.did /\ r.recordPath = row.recordPath }

\* mutant of InsertOnConflictUpdate: a conflicting row is replaced by the row
\* of the insert
InsertOnConflictUpdate_ReplacesRow(table, values, updateSet) ==
  LET row == ObjSpread(StatusColumnDefaults, values) IN
  (table \ StatusConflicts(table, row)) \cup {row}

\* insertInto(...).values(values).onConflict(oc => oc.constraint(
\* 'moderation_status_unique_idx').doUpdateSet(updateSet))
InsertOnConflictUpdate(table, values, updateSet) ==
  LET row == ObjSpread(StatusColumnDefaults, values) IN
  IF StatusConflicts(table, row) = {}
    THEN table \cup {row}
    ELSE { IF r \in StatusConflicts(table, row) THEN ObjSpread(r, updateSet) ELSE r :
           r \in table }

\* what adjustModerationSubjectStatus leaves: the table, and whether it
\* returned null, returned the result of the query or threw
ModResult(table, returned) == [table |-> table, returned |-> returned]

\* mutant of adjustModerationSubjectStatus: a plain insert, without onConflict
adjustModerationSubjectStatus_InsertOnly(table, moderationEvent, t) ==
  LET subjectStatus == getSubjectStatusForModerationEvent(
        moderationEvent.action, moderationEvent.createdBy,
        moderationEvent.durationInHours, t)
  IN
  IF subjectStatus = Null THEN ModResult(table, "null")
  ELSE IF ~ValidSubject(moderationEvent.subjectDid, moderationEvent.subjectUri)
    THEN ModResult(table, "threw")
  ELSE
    LET identifier == getStatusIdentifierFromSubject(
          moderationEvent.subjectDid, moderationEvent.subjectUri)
        defaultData == [note |-> Null, reviewState |-> REVIEWOPEN,
                        recordCid |-> moderationEvent.subjectCid]
        newStatus == ObjSpread(defaultData, subjectStatus[1])
        values == ObjSpread(ObjSpread(identifier, newStatus),
                            [createdAt |-> t, updatedAt |-> t, blobCids |-> Null])
    IN ModResult(table \cup {ObjSpread(StatusColumnDefaults, values)}, "status")

\* adjustModerationSubjectStatus(db, moderationEvent) at time t, over the
\* rows of moderation_subject_status
adjustModerationSubjectStatus(table, moderationEvent, t) ==
  LET action == moderationEvent.action
      subjectStatus == getSubjectStatusForModerationEvent(
        action, moderationEvent.createdBy, moderationEvent.durationInHours, t)
  IN
  IF subjectStatus = Null THEN ModResult(table, "null")
  ELSE IF ~ValidSubject(moderationEvent.subjectDid, moderationEvent.subjectUri)
    THEN ModResult(table, "threw")
  ELSE
    LET identifier == getStatusIdentifierFromSubject(
          moderationEvent.subjectDid, moderationEvent.subjectUri)
        defaultData == [note |-> Null, reviewState |-> REVIEWOPEN,
                        recordCid |-> moderationEvent.subjectCid]
        reversed ==
          IF /\ action = "com.atproto.admin.defs#modEventReverseTakedown"
             /\ ~("takendown" \in DOMAIN subjectStatus[1] /\ subjectStatus[1].takendown)
            THEN [takendown |-> FALSE] ELSE EmptyObj
        sticky ==
          IF action = "com.atproto.admin.defs#modEventComment" /\ moderationEvent.sticky
            THEN [note |-> moderationEvent.comment] ELSE EmptyObj
        status == ObjSpread(ObjSpread(subjectStatus[1], reversed), sticky)
        newStatus == ObjSpread(defaultData, status)
        values == ObjSpread(ObjSpread(identifier, newStatus),
                            [createdAt |-> t, updatedAt |-> t, blobCids |-> Null])
        updateSet == ObjSpread(status, [updatedAt |-> t])
    IN ModResult(InsertOnConflictUpdate(table, values, updateSet), "status")

\* the subjects of the events: the repo of did:a, a post of did:a, and a
\* subject that is neither a did nor an at-uri
ModSubjects ==
  { <<"did:a", NoUri, Null>>, <<"did:a", PostA1, Some("cid1")>>,
    <<"alice.test", NoUri, Null>> }

ModDurations(action) ==
  IF action \in { "com.atproto.admin.defs#modEventTakedown",
                  "com.atproto.admin.defs#modEventMute" }
    THEN {Null, Some(0), Some(2)} ELSE {Null}

ModSticky(action) ==
  IF action = "com.atproto.admin.defs#modEventComment" THEN BOOLEAN ELSE {FALSE}

ModerationEvents ==
  UNION { { ModerationEvent(a, "did:mod", d, s[1], s[2], s[3], k, Some("watch"))
            : d \in ModDurations(a), s \in ModSubjects, k \in ModSticky(a) }
          : a \in ModActions }

\* bound of the number of moderation events applied
MaxEvents == 3

\* the last call: its event, what it returned, and the number of calls so far
ModLog(event, returned, applied) ==
  [event |-> event, returned |-> returned, calls |-> applied]
NoModLog ==
  ModLog(ModerationEvent("none", "", Null, "", NoUri, Null, FALSE, Null), "none", 0)

\* the identifiers of the subjects that have a status or had an event
StatusIdentifiers ==
  { getStatusIdentifierFromSubject(s[1], s[2]) :
      s \in { x \in ModSubjects : ValidSubject(x[1], x[2]) } }

ModIdle ==
  /\ modStatus = {}
  /\ modLog = NoModLog
  /\ modLast = [id \in StatusIdentifiers |-> "none"]

\* one call of adjustModerationSubjectStatus; modLast remembers, for each
\* subject, the last takedown or reverse-takedown event applied to it
AdjustModerationSubjectStatus ==
  \E moderationEvent \in ModerationEvents :
    LET r == adjustModerationSubjectStatus(modStatus, moderationEvent, now) IN
    /\ modLog.calls < MaxEvents
    /\ modStatus' = r.table
    /\ modLog' = ModLog(moderationEvent, r.returned, modLog.calls + 1)
    /\ modLast' =
         IF /\ r.returned = "status"
            /\ moderationEvent.action \in
                 { "com.atproto.admin.defs#modEventTakedown",
                   "com.atproto.admin.defs#modEventReverseTakedown" }
           THEN [modLast EXCEPT
                   ![getStatusIdentifierFromSubject(
                       moderationEvent.subjectDid, moderationEvent.subjectUri)] =
                     moderationEvent.action]
           ELSE modLast
    /\ UNCHANGED <<truncVars, feedVars, svcVars, pusherVars, indexVars>>

(***************************************************************************)
(* Post indexing (insertFn and eventsForInsert of the post plugin)         *)
(***************************************************************************)

\* a thread: Thread1 is the root, each of the others replies to the one before
Thread1 == AtUri("did:b", "app.bsky.feed.post", "t1")
Thread2 == AtUri("did:b", "app.bsky.feed.post", "t2")
Thread3 == AtUri("did:a", "app.bsky.feed.post", "t3")
Thread4 == AtUri("did:a", "app.bsky.feed.post", "t4")
ThreadPosts == {Thread1, Thread2, Thread3, Thread4}

ThreadParent(uri) ==
  CASE uri = Thread2 -> Thread1
    [] uri = Thread3 -> Thread2
    [] uri = Thread4 -> Thread3
    [] OTHER -> NoUri

\* obj.reply of a post of the thread: null for the root
ReplyRef(uri) ==
  IF ThreadParent(uri) = NoUri THEN Null
  ELSE Some([root |-> [uri |-> Thread1, cid |-> "cid"],
             parent |-> [uri |-> ThreadParent(uri), cid |-> "cid"]])

\* the features of a facet: a mention, a link, or another kind
FacetMention(did) == [type |-> "mention", value |-> did]
FacetLink(uri) == [type |-> "link", value |-> uri]
FacetOther == [type |-> "tag", value |-> "tag"]

FacetChoices ==
  { <<>>,
    <<FacetMention("did:a"), FacetOther, FacetLink("https://example.com"),
      FacetMention("did:b")>> }

\* obj.embed: absent, images, external or record
EmbedAbsent == [type |-> "absent"]
EmbedImages == [type |-> "images", images |-> <<"img1", "img2">>]
EmbedExternal == [type |-> "external", uri |-> "https://example.com"]
EmbedRecord == [type |-> "record", uri |-> Thread1, cid |-> "cid"]

\* the facets and the embed of the records indexed
RecordChoices ==
  { <<f, EmbedAbsent>> : f \in FacetChoices }
  \cup { <<<<>>, EmbedImages>>, <<<<>>, EmbedExternal>>, <<<<>>, EmbedRecord>> }

PostRecord(text, createdAt, reply, facets, embed) ==
  [text |-> text, createdAt |-> createdAt, reply |-> reply, facets |-> facets,
   embed |-> embed]

PostRecordsFor(uri) ==
  { PostRecord("text", 1, ReplyRef(uri), c[1], c[2]) : c \in RecordChoices }

\* the tables insertFn writes
PostTables(post, post_embed_image, post_embed_external, post_embed_record, post_hierarchy) ==
  [post |-> post, post_embed_image |-> post_embed_image,
   post_embed_external |-> post_embed_external,
   post_embed_record |-> post_embed_record, post_hierarchy |-> post_hierarchy]

PostHierarchy(uri, ancestorUri, depth) ==
  [uri |-> uri, ancestorUri |-> ancestorUri, depth |-> depth]

\* insertInto('post_hierarchy') ... onConflict(oc => oc.doNothing()): the rows
\* that are inserted
HierarchyInserted(table, rows) ==
  { r \in rows : ~\E q \in table : q.uri = r.uri /\ q.ancestorUri = r.ancestorUri }

\* (obj.facets || []).flatMap(...)
RECURSIVE FacetsOf(_)
FacetsOf(facets) ==
  IF facets = <<>> THEN <<>>
  ELSE (IF Head(facets).type \in {"mention", "link"} THEN <<Head(facets)>> ELSE <<>>)
       \o FacetsOf(Tail(facets))

\* the embed rows of a post and the table they go to
EmbedRows(uri, embed) ==
  CASE embed.type = "images" ->
         { [postUri |-> uri, position |-> i - 1, imageCid |-> embed.images[i]] :
             i \in DOMAIN embed.images }
    [] embed.type = "external" -> { [postUri |-> uri, uri |-> embed.uri] }
    [] embed.type = "record" ->
         { [postUri |-> uri, embedUri |-> embed.uri, embedCid |-> embed.cid] }
    [] OTHER -> {}

IndexedPost(post, facets, embed, ancestors) ==
  [post |-> post, facets |-> facets, embed |-> embed, ancestors |-> ancestors]

InsertResult(tables, indexed) == [db |-> tables, result |-> indexed]

\* the body of insertFn once the post row is inserted
InsertIndexes(tables, post, obj) ==
  LET uri == post.uri
      embed == EmbedRows(uri, obj.embed)
      self == HierarchyInserted(tables.post_hierarchy, {PostHierarchy(uri, uri, 0)})
      hierarchy == tables.post_hierarchy \cup self
      ancestors ==
        IF post.replyParent # NoUri
          THEN HierarchyInserted(hierarchy,
                 { PostHierarchy(uri, p.ancestorUri, p.depth + 1) :
                     p \in { q \in hierarchy : q.uri = post.replyParent } })
          ELSE {}
  IN InsertResult(
       [tables EXCEPT
          !.post_embed_image = @ \cup (IF obj.embed.type = "images" THEN embed ELSE {}),
          !.post_embed_external = @ \cup (IF obj.embed.type = "external" THEN embed ELSE {}),
          !.post_embed_record = @ \cup (IF obj.embed.type = "record" THEN embed ELSE {}),
          !.post_hierarchy = hierarchy \cup ancestors],
       Some(IndexedPost(post, FacetsOf(obj.facets), embed, ancestors)))

\* the row of the post table
PostRow(uri, cid, obj, timestamp) ==
  [uri |-> uri, cid |-> cid, creator |-> uri.did, text |-> obj.text,
   createdAt |-> obj.createdAt,
   replyRoot |-> IF obj.reply = Null THEN NoUri ELSE obj.reply[1].root.uri,
   replyParent |-> IF obj.reply = Null THEN NoUri ELSE obj.reply[1].parent.uri,
   indexedAt |-> timestamp]

\* mutant of insertFn: goes on when the post is already in the table
insertFn_IgnoresConflict(tables, uri, cid, obj, timestamp) ==
  LET post == PostRow(uri, cid, obj, timestamp) IN
  IF \E p \in tables.post : p.uri = post.uri
    THEN InsertIndexes(tables, post, obj)
    ELSE InsertIndexes([tables EXCEPT !.post = @ \cup {post}], post, obj)

\* insertFn(db, uri, cid, obj, timestamp)
insertFn(tables, uri, cid, obj, timestamp) ==
  LET post == PostRow(uri, cid, obj, timestamp) IN
  IF \E p \in tables.post : p.uri = post.uri
    THEN InsertResult(tables, Null)
    ELSE InsertIndexes([tables EXCEPT !.post = @ \cup {post}], post, obj)

\* messages.createNotification({...}); reasonSubject is NoUri when not given
Notification(userDid, author, recordUri, recordCid, reason, reasonSubject) ==
  [userDid |-> userDid, author |-> author, recordUri |-> recordUri,
   recordCid |-> recordCid, reason |-> reason, reasonSubject |-> reasonSubject]

\* the first loop of eventsForInsert
RECURSIVE MentionNotifs(_, _)
MentionNotifs(facets, post) ==
  IF facets = <<>> THEN <<>>
  ELSE (IF Head(facets).type = "mention" /\ Head(facets).value # post.creator
          THEN <<Notification(Head(facets).value, post.creator, post.uri, post.cid,
                              "mention", NoUri)>>
          ELSE <<>>)
       \o MentionNotifs(Tail(facets), post)

\* [...obj.ancestors].sort((a, b) => a.depth - b.depth)
RECURSIVE SortByDepth(_)
SortByDepth(rows) ==
  IF rows = {} THEN <<>>
  ELSE LET first == CHOOSE r \in rows : \A q \in rows : r.depth <= q.depth
       IN <<first>> \o SortByDepth(rows \ {first})

\* mutant of ReplyNotifs: every ancestor is notified
RECURSIVE ReplyNotifs_NoNotifiedSet(_, _, _)
ReplyNotifs_NoNotifiedSet(ancestors, notified, post) ==
  IF ancestors = <<>> THEN <<>>
  ELSE <<Notification(Head(ancestors).ancestorUri.did, post.creator, post.uri,
                      post.cid, "reply", Head(ancestors).ancestorUri)>>
       \o ReplyNotifs_NoNotifiedSet(Tail(ancestors), notified, post)

\* the second loop of eventsForInsert, over the sorted ancestors
RECURSIVE ReplyNotifs(_, _, _)
ReplyNotifs(ancestors, notified, post) ==
  IF ancestors = <<>> THEN <<>>
  ELSE LET host == Head(ancestors).ancestorUri.did IN
       IF host \notin notified
         THEN <<Notification(host, post.creator, post.uri, post.cid, "reply",
                             Head(ancestors).ancestorUri)>>
              \o ReplyNotifs(Tail(ancestors), notified \cup {host}, post)
         ELSE ReplyNotifs(Tail(ancestors), notified, post)

\* eventsForInsert(obj)
eventsForInsert(obj) ==
  MentionNotifs(obj.facets, obj.post)
    \o ReplyNotifs(SortByDepth(obj.ancestors), {obj.post.creator}, obj.post)

\* the last record indexed: what insertFn returned and the messages sent
IndexLog(uri, obj, returned, notifs) ==
  [uri |-> uri, obj |-> obj, returned |-> returned, events |-> notifs]
NoIndexLog == IndexLog(NoUri, PostRecord("", 1, Null, <<>>, EmbedAbsent), Null, <<>>)

NoTables == PostTables({}, {}, {}, {}, {})

IndexIdle ==
  /\ postDb = NoTables
  /\ indexLog = NoIndexLog

\* RecordProcessor.insertRecord(uri, cid, obj, timestamp): insertFn, and the
\* messages of eventsForInsert when it returned a row
InsertRecord ==
  \E uri \in ThreadPosts :
    \E obj \in PostRecordsFor(uri) :
      LET r == insertFn(postDb, uri, "cid", obj, now) IN
      /\ postDb' = r.db
      /\ indexLog' = IndexLog(uri, obj, r.result,
                              IF r.result = Null THEN <<>> ELSE eventsForInsert(r.result[1]))
      /\ UNCHANGED <<truncVars, feedVars, svcVars, pusherVars, modVars>>

(***************************************************************************)
(* Specifications                                                          *)
(***************************************************************************)
InitTrunc == TruncInit /\ FeedIdle /\ SvcIdle /\ PusherIdle /\ ModIdle /\ IndexIdle
NextTrunc == TruncateDisplayName
SpecTrunc == InitTrunc /\ [][NextTrunc]_vars

InitFeed == TruncIdle /\ FeedInit /\ SvcIdle /\ PusherIdle /\ ModIdle /\ IndexIdle
NextFeed ==
  \/ SkeletonStage
  \/ HydrationStage
  \/ RulesStage
  \/ PresentationStage
SpecFeed == InitFeed /\ [][NextFeed]_vars

\* the Skeleton stage on its own, for every combination of incoming headers
InitSkel == TruncIdle /\ FeedRequest(IncomingHeaders) /\ SvcIdle /\ PusherIdle /\ ModIdle /\ IndexIdle
NextSkel == SkeletonStage
SpecSkel == InitSkel /\ [][NextSkel]_vars

\* getActorInfos on its own, over every combination of relationships and
\* list mutes
InitActor == TruncIdle /\ FeedIdle /\ SvcOver(ActorDatabases) /\ PusherIdle /\ ModIdle /\ IndexIdle
NextActor == GetActorInfos
SpecActor == InitActor /\ [][NextActor]_vars

\* hydrateFeed, await by await, with the relationships changing under it
InitHydrate == TruncIdle /\ FeedIdle /\ HydrateInit /\ PusherIdle /\ ModIdle /\ IndexIdle
NextHydrate ==
  \/ HydrateRead
  \/ HydrateSettle
  \/ HydrateEmbeds
  \/ HydrateFormat
  \/ RelationChanges
SpecHydrate == InitHydrate /\ [][NextHydrate]_vars

\* getActorInfos and getPostInfos over taken-down records and accounts
InitTakedown == TruncIdle /\ FeedIdle /\ SvcOver(TakedownDatabases) /\ PusherIdle /\ ModIdle /\ IndexIdle
NextTakedown ==
  \/ GetActorInfos
  \/ GetPostInfos
SpecTakedown == InitTakedown /\ [][NextTakedown]_vars

\* the poll loops of an EventPusher from construction on
InitPoll == TruncIdle /\ FeedIdle /\ SvcIdle /\ PollInit /\ ModIdle /\ IndexIdle
NextPoll ==
  \/ Start
  \/ \E k \in Loops : SettleRound(k)
  \/ \E k \in Loops : TimerFires(k)
  \/ Destroy
  \/ DestroyResolves
SpecPoll == InitPoll /\ [][NextPoll]_vars

\* the repo loop of a started EventPusher, round after round, while the pushes
\* of the other two loops are still in flight
InitLoop == TruncIdle /\ FeedIdle /\ SvcIdle /\ PollInit /\ ModIdle /\ IndexIdle
NextLoop ==
  \/ Start
  \/ RepoRoundSettles
  \/ RepoTimerFires
SpecLoop == InitLoop /\ [][NextLoop]_vars

\* a started EventPusher that is never destroyed, with targets that fail until
\* they accept for good; a round in flight settles and a pending timeout
\* fires
NextLive ==
  \/ Start
  \/ \E k \in Loops : SettleRound(k)
  \/ \E k \in Loops : TimerFires(k)
  \/ TargetsAccept
Fairness ==
  /\ WF_vars(Start)
  /\ \A k \in Loops : WF_vars(SettleRound(k)) /\ WF_vars(TimerFires(k))
SpecLive == InitLoop /\ [][NextLive]_vars /\ Fairness

\* moderation events applied one after the other
InitMod == TruncIdle /\ FeedIdle /\ SvcIdle /\ PusherIdle /\ ModIdle /\ IndexIdle
NextMod == AdjustModerationSubjectStatus
SpecMod == InitMod /\ [][NextMod]_vars

\* the posts of a thread indexed in any order, any number of times
InitIndex == TruncIdle /\ FeedIdle /\ SvcIdle /\ PusherIdle /\ ModIdle /\ IndexIdle
NextIndex == InsertRecord
SpecIndex == InitIndex /\ [][NextIndex]_vars

\* the push functions called one after the other, as time passes
InitPush == TruncIdle /\ FeedIdle /\ SvcIdle /\ PushInit /\ ModIdle /\ IndexIdle
NextPush ==
  \/ PushRepoEvents
  \/ PushRecordEvents
  \/ PushBlobEvents
  \/ Tick
SpecPush == InitPush /\ [][NextPush]_vars

InitSvc == TruncIdle /\ FeedIdle /\ SvcInit /\ PusherIdle /\ ModIdle /\ IndexIdle
NextSvc ==
  \/ GetActorInfos
  \/ GetPostInfos
  \/ GetFeedGeneratorInfos
  \/ NestedRecordViews
  \/ EmbedsForPosts
SpecSvc == InitSvc /\ [][NextSvc]_vars


(***************************************************************************)
(* Claims about the getFeed pipeline (SpecFeed, SpecSkel)                  *)
(***************************************************************************)
\* the skeleton items the generator's response maps to, before any stage
\* changes them
GeneratorItems == [i \in 1..Len(upstream.data.feed) |-> FeedItemOf(upstream.data.feed[i])]

\* the originator of a feed view: who reposted it, or its author
OriginatorOf(post, repost) == IF repost # NoUri THEN repost.did ELSE post.did

BlockEitherWay(did) == hydration.rel[did].blocking \/ hydration.rel[did].blockedBy

\* an item the Rules stage has to remove
Forbidden(post, repost) ==
  \/ BlockEitherWay(post.did)
  \/ hydration.rel[post.did].muted
  \/ BlockEitherWay(OriginatorOf(post, repost))
  \/ hydration.rel[OriginatorOf(post, repost)].muted
  \/ /\ post \in hydration.posts
     /\ \E anc \in ReplyAncestors(post) : hydration.rel[anc.did].blocking

\* C1: for every getFeed request that completes, the cursor of the response
\* body is the cursor the feed generator returned, whatever Rules removed and
\* Presentation dropped or truncated.
C1_CursorIsGeneratorCursor ==
  pc = "done" => Get(response.body, "cursor") = Get(upstream.data, "cursor")

\* a completed request whose generator sent a cursor and two entries, of which
\* fewer reach the response
C1_Witness ==
  /\ pc = "done"
  /\ Get(upstream.data, "cursor") = "cursor-1"
  /\ Len(upstream.data.feed) = 2
  /\ Len(skeleton.items) < 2
  /\ Len(response.body.feed) < Len(skeleton.items)

\* C2: no item of the response feed has an author or repost originator in a
\* block relationship with the viewer (either way), a muted author or
\* originator, or a blocked reply-ancestor author; the Rules stage has removed
\* every such item before Presentation runs.
C2_NoBlockedOrMutedItem ==
  /\ pc \in {"presentation", "done"} =>
       \A i \in 1..Len(skeleton.items) :
         ~Forbidden(skeleton.items[i].post, skeleton.items[i].repost)
  /\ pc = "done" =>
       \A i \in 1..Len(response.body.feed) :
         ~Forbidden(response.body.feed[i].post, response.body.feed[i].reason)

\* a completed request with a non-empty feed whose generator also returned a
\* post reposted by an account the viewer mutes
C2_Witness ==
  /\ pc = "done"
  /\ Len(response.body.feed) > 0
  /\ \E i \in 1..Len(upstream.data.feed) :
       /\ GeneratorItems[i].repost # NoUri
       /\ ~hydration.rel[GeneratorItems[i].post.did].muted
       /\ ~BlockEitherWay(GeneratorItems[i].post.did)
       /\ hydration.rel[GeneratorItems[i].repost.did].muted

\* C4: the response feed is the first params.limit elements, in the order of
\* the generator's skeleton, of the items that survive the Rules filter and
\* have a presentable view; nothing is reordered, duplicated or introduced.
C4_FeedIsFirstLimitSurvivors ==
  pc = "done" =>
    LET feed == response.body.feed
        survivors == SelectSeq(GeneratorItems,
                       LAMBDA item : /\ ~Forbidden(item.post, item.repost)
                                     /\ item.post \in hydration.posts)
        expected == Slice(survivors, params.limit)
    IN  /\ Len(feed) <= params.limit
        /\ Len(feed) = Len(expected)
        /\ \A i \in 1..Len(feed) :
             /\ feed[i].post = expected[i].post
             /\ feed[i].reason = expected[i].repost
             /\ feed[i].feedContext = expected[i].feedContext

\* two entries survive and have views, and the limit of 1 cuts the second
C4_Witness ==
  /\ pc = "done"
  /\ params.limit = 1
  /\ Len(skeleton.items) = 2
  /\ \A i \in 1..2 : skeleton.items[i].post \in hydration.posts
  /\ skeleton.items[1] # skeleton.items[2]
  /\ Len(response.body.feed) = 1

PipelineOrder == <<"skeleton", "hydration", "rules", "presentation">>

\* C5: the stages run in the order Skeleton, Hydration, Rules, Presentation,
\* each at most once, a later one only after the earlier one completed; when the
\* upstream call fails the request fails in Skeleton with the error thrown
\* there (InvalidRequestError 'UnknownFeed' for an unknown feed) and no later
\* stage is entered.
C5_StagesInOrderSkeletonErrorAborts ==
  /\ IsPrefix(stages, PipelineOrder)
  /\ pc \in {"hydration", "rules", "presentation"} =>
       /\ PipelineOrder[Len(stages) + 1] = pc
       /\ response.kind = "none"
  /\ pc = "done" => stages = PipelineOrder /\ response.kind = "ok"
  /\ (upstream # NoUpstream /\ ~upstream.ok) =>
       /\ pc = "failed"
       /\ stages = <<"skeleton">>
       /\ response.kind = "error"
       /\ hydration = NoHydration
       /\ upstream.err.class = "UnknownFeedError" =>
            /\ response.error.class = "InvalidRequestError"
            /\ response.error.name = "UnknownFeed"

\* the generator reported an unknown feed and the request has failed
C5_Witness ==
  /\ pc = "failed"
  /\ upstream.err.class = "UnknownFeedError"
  /\ stages = <<"skeleton">>

\* C6: an error of the outbound call has exactly one outcome: status Unknown
\* becomes the server error 'feed unavailable', a response failing schema
\* validation becomes the server error 'InvalidFeedResponse', and any other
\* error (but the unknown-feed error) is rethrown, the very error caught.
C6_UpstreamErrorClassified ==
  (pc = "failed" /\ upstream # NoUpstream /\ ~upstream.ok) =>
    LET e == upstream.err
        r == response.error
    IN  IF e.class = "UnknownFeedError"
          THEN r.class = "InvalidRequestError" /\ r.name = "UnknownFeed"
        ELSE IF e.status = "Unknown"
          THEN /\ r.class = "UpstreamFailureError"
               /\ r.message = "feed unavailable"
               /\ r.name = ""
        ELSE IF e.status = "InvalidResponse"
          THEN r.class = "UpstreamFailureError" /\ r.name = "InvalidFeedResponse"
        ELSE r = e

\* an error that is not an XRPCError was caught and rethrown
C6_Witness ==
  /\ pc = "failed"
  /\ upstream.err.class = "Error"
  /\ response.error = upstream.err

\* C11: a skeleton item that cannot be turned into a view (its post is absent
\* from the hydrated data) is left out of the feed, and the request succeeds
\* with all the other presentable items, up to the limit; a missing entry is
\* never an error.
C11_UnpresentableItemOmitted ==
  Len(stages) = 4 =>
    LET feed == response.body.feed
        presentable == SelectSeq(skeleton.items,
                                 LAMBDA item : item.post \in hydration.posts)
    IN  /\ pc = "done"
        /\ response.kind = "ok"
        /\ \A i \in 1..Len(feed) : feed[i].post \in hydration.posts
        /\ Len(feed) = IF Len(presentable) < params.limit
                         THEN Len(presentable) ELSE params.limit
        /\ \A i \in 1..Len(feed) : feed[i].post = presentable[i].post

\* Rules left two items, the post of the first is gone, the second is served
C11_Witness ==
  /\ pc = "done"
  /\ Len(skeleton.items) = 2
  /\ skeleton.items[1].post \notin hydration.posts
  /\ Len(response.body.feed) = 1
  /\ response.body.feed[1].post = skeleton.items[2].post

\* the incoming headers that agree with the request's on the forwarded ones
SameForwardedHeaders ==
  { h \in IncomingHeaders :
      /\ DOMAIN h \cap ForwardedHeaders = DOMAIN headers \cap ForwardedHeaders
      /\ \A k \in DOMAIN h \cap ForwardedHeaders : h[k] = headers[k] }

\* C12: the outbound getFeedSkeleton call carries only the headers
\* authorization, accept-language and x-bsky-topics, each only when the
\* incoming request has it; a request that differs only in other headers leads
\* to the same outbound call.
C12_OnlyAllowListedHeadersForwarded ==
  \A i \in 1..Len(outbound) :
    /\ DOMAIN outbound[i].headers = ForwardedHeaders \cap DOMAIN headers
    /\ \A h \in SameForwardedHeaders :
         skeletonFromFeedGen(params, h, resolution, upstream).calls = outbound

\* a call was made for a request with a cookie, topics sent as an array and no
\* authorization
C12_Witness ==
  /\ Len(outbound) = 1
  /\ "cookie" \in DOMAIN headers
  /\ "authorization" \notin DOMAIN headers
  /\ "x-bsky-topics" \in DOMAIN headers
  /\ headers["x-bsky-topics"].array
  /\ outbound[1].headers["x-bsky-topics"] = HeaderValue(FALSE, <<"t1", "t2">>)

\* C13: when the feed does not resolve to a generator record with a did, or
\* the identity is not found, or the identity declares no feed generator
\* endpoint, the Skeleton stage fails with an InvalidRequestError and no call is
\* made to a feed generator; another error of the identity lookup is thrown on
\* as it is.
C13_UnresolvedFeedIsInvalidRequest ==
  stages # <<>> =>
    /\ ( \/ resolution.feedDid = Undefined
         \/ resolution.identity = "NotFound"
         \/ resolution.identity = "ok" /\ resolution.endpoint = Undefined ) =>
         /\ pc = "failed"
         /\ stages = <<"skeleton">>
         /\ response.kind = "error"
         /\ response.error.class = "InvalidRequestError"
         /\ outbound = <<>>
    /\ ( /\ resolution.feedDid # Undefined
         /\ resolution.identity \notin {"ok", "NotFound"} ) =>
         /\ pc = "failed"
         /\ response.error = IdentityError
         /\ outbound = <<>>

\* the identity was found and declares no feed generator endpoint
C13_Witness ==
  /\ pc = "failed"
  /\ resolution.identity = "ok"
  /\ resolution.endpoint = Undefined
  /\ outbound = <<>>

\* C14: at most one getFeedSkeleton call is made for a request; when the
\* generator's answer is an error the request fails and the generator is not
\* called again.
C14_AtMostOneOutboundCall ==
  /\ Len(outbound) <= 1
  /\ (upstream # NoUpstream /\ ~upstream.ok) =>
       /\ Len(outbound) = 1
       /\ pc = "failed"
       /\ response.kind = "error"

\* the generator could not be reached and the request has failed
C14_Witness ==
  /\ pc = "failed"
  /\ Len(outbound) = 1
  /\ upstream.err.status = "Unknown"
  /\ response.error.message = "feed unavailable"


(***************************************************************************)
(* Claims about FeedService (SpecSvc, SpecActor, SpecHydrate)              *)
(***************************************************************************)
\* the target of a record embed is in the data layer
Hydrated(u) ==
  \/ u.collection = PostCollection /\ u \in db.posts
  \/ u.collection = FeedGenCollection /\ u \in db.feedGens
  \/ u.collection = ListCollection /\ u \in db.lists

\* the type of the view returned for uri u, "" when there is none
ViewTypeIn(views, u) == IF u \in DOMAIN views THEN views[u].type ELSE ""

NestedUris == Range(nestedRecordUris(op.posts))

\* C3: a record embed whose target is a post is rendered as the blocked view
\* iff the author of the post blocks the viewer or is blocked by the viewer,
\* and as the not-found view iff the post could not be hydrated; a post of
\* such an author is never rendered as a materialized record view.
C3_BlockedIffBlockRelation ==
  op.name = "nestedRecordViews" =>
    \A u \in NestedUris :
      u.collection = PostCollection =>
        LET blocked == db.rel[u.did].blocking \/ db.rel[u.did].blockedBy IN
        /\ (ViewTypeIn(result, u) = "app.bsky.embed.record#viewBlocked")
             <=> (u \in db.posts /\ blocked)
        /\ (ViewTypeIn(result, u) = "app.bsky.embed.record#viewNotFound")
             <=> (u \notin db.posts)
        /\ blocked => ViewTypeIn(result, u) # "app.bsky.embed.record#viewRecord"

\* C7: getActorInfos, getPostInfos and getFeedGeneratorInfos called with an
\* empty id list return an empty map and issue no query and no collaborator
\* call.
C7_EmptyIdsNoCalls ==
  (op.name \in {"getActorInfos", "getPostInfos", "getFeedGeneratorInfos"}
     /\ op.ids = <<>>) =>
    /\ calls = <<>>
    /\ DOMAIN result = {}

\* getActorInfos has run with an empty list and labels not skipped
C7_Witness ==
  /\ op.name = "getActorInfos"
  /\ op.ids = <<>>
  /\ ~op.skipLabels

\* C8: a record embed whose target cannot be hydrated gets the not-found view,
\* and the view of every reference of the batch is the one it gets when it is
\* resolved alone.
C8_UnhydratedIsNotFound ==
  op.name = "nestedRecordViews" =>
    \A u \in NestedUris :
      /\ ~Hydrated(u) =>
           /\ u \in DOMAIN result
           /\ result[u] = View("app.bsky.embed.record#viewNotFound", u)
      /\ LET alone == nestedRecordViews(db, <<[embed |-> Embed("record", u, "absent")]>>).value
         IN  /\ (u \in DOMAIN result) <=> (u \in DOMAIN alone)
             /\ u \in DOMAIN result => result[u] = alone[u]

\* a batch with a post that is gone and a feed generator that is there
C8_Witness ==
  /\ op.name = "nestedRecordViews"
  /\ PostA1 \in NestedUris /\ PostA1 \notin db.posts
  /\ GenA \in NestedUris /\ GenA \in db.feedGens
  /\ ViewTypeIn(result, PostA1) = "app.bsky.embed.record#viewNotFound"
  /\ ViewTypeIn(result, GenA) = "app.bsky.feed.defs#generatorView"

\* C9: a record embed that points at a hydrated post is rendered as a
\* materialized view of that post, and the post's own embed is not expanded.
C9_HydratedPostMaterializedUnexpanded ==
  op.name = "nestedRecordViews" =>
    \A u \in NestedUris :
      (u.collection = PostCollection /\ u \in db.posts
         /\ ~db.rel[u.did].blocking /\ ~db.rel[u.did].blockedBy) =>
        /\ u \in DOMAIN result
        /\ result[u].type = "app.bsky.embed.record#viewRecord"
        /\ result[u].uri = u
        /\ result[u].embeds = <<>>

\* the kind of view the target of a record reference calls for
ViewKindFor(u) ==
  IF u.collection = FeedGenCollection /\ u \in db.feedGens
    THEN "app.bsky.feed.defs#generatorView"
  ELSE IF u.collection = ListCollection /\ u \in db.lists
    THEN "app.bsky.graph.defs#listView"
  ELSE IF u.collection = PostCollection /\ u \in db.posts
    THEN "app.bsky.embed.record#viewRecord"
  ELSE "app.bsky.embed.record#viewNotFound"

\* C15: nestedRecordViews returns a view for every record-reference uri of
\* the batch, of the one kind its target calls for: generator view, list view,
\* materialized post-record view, or not-found; no uri is left without a view.
C15_EveryReferenceHasItsView ==
  op.name = "nestedRecordViews" =>
    \A u \in NestedUris :
      /\ u \in DOMAIN result
      /\ result[u].type = ViewKindFor(u)
      /\ result[u].uri = u

\* the view embedsForPosts owes a post whose record carries embed e; "" when
\* the post gets no entry
EmbedViewTypeFor(e) ==
  IF e.type = "images" THEN "app.bsky.embed.images#view"
  ELSE IF e.type = "external" THEN "app.bsky.embed.external#view"
  ELSE IF e.type = "record" THEN ViewKindFor(e.uri)
  ELSE IF e.type = "recordWithMedia" /\ e.media \in {"images", "external"}
    THEN "app.bsky.embed.recordWithMedia#view"
  ELSE ""

\* C16: embedsForPosts has an entry for a hydrated post iff its record has an
\* embed of a recognised tag: an images view for images, an external view for
\* an external link, the resolved record view for a record reference; a post
\* without an embed has no entry.
C16_EntryIffRecognisedEmbed ==
  op.name = "embedsForPosts" =>
    \A u \in Range(op.ids) \cap db.posts :
      LET type == EmbedViewTypeFor(RecordOf(u).embed) IN
      /\ (u \in DOMAIN result) <=> (type # "")
      /\ u \in DOMAIN result => result[u].type = type

NoDuplicates(ids) == \A i, j \in 1..Len(ids) : ids[i] = ids[j] => i = j

\* C17: every id list nestedRecordViews passes to a batch loader or a lookup
\* is free of duplicates, also when several posts of the batch embed the same
\* record.
C17_LoaderIdsDeduplicated ==
  op.name = "nestedRecordViews" =>
    \A i \in 1..Len(calls) : NoDuplicates(calls[i].ids)

\* C18: no query and no collaborator lookup is issued with an empty id list.
C18_NoLookupWithEmptyIds ==
  \A i \in 1..Len(calls) : calls[i].ids # <<>>

\* C20: in the overlay getActorInfos returns, muted is true exactly when the
\* viewer mutes the account directly or through a list; a list mute carries
\* the list's reference in mutedByList; with neither mute, muted is false and
\* mutedByList absent.
C20_MutedIsDirectOrListMute ==
  op.name = "getActorInfos" =>
    \A did \in DOMAIN result :
      LET v == result[did].viewer
          byList == did \in DOMAIN db.listMutes
      IN  /\ v.muted <=> (db.rel[did].muted \/ byList)
          /\ byList => v.mutedByList = db.listMutes[did]
          /\ ~byList => v.mutedByList = NoUri

\* an account muted through a list only, and one muted directly only
C20_Witness ==
  /\ op.name = "getActorInfos"
  /\ DOMAIN result = Dids
  /\ DOMAIN db.listMutes = {"did:a"}
  /\ ~db.rel["did:a"].muted /\ db.rel["did:b"].muted
  /\ result["did:a"].viewer.muted
  /\ result["did:a"].viewer.mutedByList = ListA
  /\ result["did:b"].viewer.muted
  /\ result["did:b"].viewer.mutedByList = NoUri

\* the overlays of account did that the views of the result show
OverlaysShown(did) ==
  { result[i].author.viewer : i \in {j \in 1..Len(result) : result[j].author.did = did} }
  \cup { result[i].by.viewer : i \in {j \in 1..Len(result) : result[j].by.did = did} }

\* the reads of the relationship overlay of account did
OverlayReads(did) ==
  { i \in 1..Len(calls) : calls[i].target = "db.did_handle" /\ did \in Range(calls[i].ids) }

WithinBudget(str) == Len(Utf8Encode(str)) <= DisplayNameMaxBytes

\* C10: for every display name s, truncateUtf8(s, 64) encodes to at most 64
\* UTF-8 bytes, is a prefix of s made of whole code points of s, and equals s
\* when s already encodes to at most 64 bytes.
C10_TruncatedIsPrefixWithinBudget ==
  truncDone =>
    /\ WithinBudget(truncName)
    /\ IsPrefix(truncName, displayName)
    /\ (WithinBudget(displayName) => truncName = displayName)

(***************************************************************************)
(* Claims about takedowns (SpecTakedown)                                   *)
(***************************************************************************)
\* C21: getPostInfos returns no entry for a post whose record is taken down or
\* whose author's account is taken down, even when the post row exists;
\* getActorInfos returns no entry for a taken-down account unless
\* includeSoftDeleted is set.
C21_TakenDownNotReturned ==
  /\ op.name = "getPostInfos" =>
       \A u \in DOMAIN result :
         u \notin db.takedownRecords /\ u.did \notin db.takedownAccounts
  /\ (op.name = "getActorInfos" /\ ~op.includeSoftDeleted) =>
       \A did \in DOMAIN result : did \notin db.takedownAccounts

\* the row of PostB1 exists and its record is not taken down, but its author
\* is: getPostInfos was asked for PostA1 and PostB1 and returned PostA1 only
C21_Witness ==
  /\ op.name = "getPostInfos"
  /\ Range(op.ids) = {PostA1, PostB1}
  /\ {PostA1, PostB1} \subseteq db.posts
  /\ db.takedownRecords = {}
  /\ db.takedownAccounts = {"did:b"}
  /\ DOMAIN result = {PostA1}

(***************************************************************************)
(* Claims about hydrateFeed (SpecHydrate)                                  *)
(***************************************************************************)
\* the ids asked of a table in the calls made so far
RequestedIds(target) ==
  UNION { Range(calls[i].ids) : i \in {j \in 1..Len(calls) : calls[j].target = target} }

\* the reply pointers of the rows that are present
ReplyPointers ==
  { hydrate.items[i].replyParent : i \in 1..Len(hydrate.items) }
  \cup { hydrate.items[i].replyRoot : i \in 1..Len(hydrate.items) }

\* C22: hydrateFeed requests exactly the post id of every row and each row's
\* reply-parent and reply-root id when present, and the actor id of every post
\* author, every repost originator and the author of every reply parent and
\* root: nothing outside this set and nothing of it missing.
C22_ExactlyTheFeedIdsRequested ==
  hydrate.pc \notin {"off", "read"} =>
    /\ RequestedIds("db.post")
         = { hydrate.items[i].postUri : i \in 1..Len(hydrate.items) }
           \cup (ReplyPointers \ {NoUri})
    /\ RequestedIds("db.did_handle")
         = { hydrate.items[i].postUri.did : i \in 1..Len(hydrate.items) }
           \cup { hydrate.items[i].originatorDid : i \in 1..Len(hydrate.items) }
           \cup { u.did : u \in ReplyPointers \ {NoUri} }

\* one row: did:b's post PostB2, a reply to PostB1 in the thread of PostA1;
\* the three posts and both accounts were asked for
C22_Witness ==
  /\ hydrate.pc = "done"
  /\ Len(hydrate.items) = 1
  /\ hydrate.items[1].postUri = PostB2
  /\ hydrate.items[1].replyParent = PostB1
  /\ hydrate.items[1].replyRoot = PostA1
  /\ RequestedIds("db.post") = {PostA1, PostB1, PostB2}
  /\ RequestedIds("db.did_handle") = Dids

\* C23: the reads of the accounts, the posts and the labels are started
\* together; embed resolution starts only after all three have fulfilled; if
\* one of them rejects, embed resolution is not started and the call fails.
C23_EmbedsAfterAllThreeFetches ==
  /\ (hydrate.pc = "await" /\ hydrate.items # <<>>) =>
       \A t \in {"db.did_handle", "db.post", "label.getLabelsForSubjects"} :
         \E i \in 1..Len(calls) : calls[i].target = t
  /\ hydrate.embedsStarted =>
       /\ hydrate.pending = {}
       /\ hydrate.failed = "none"
       /\ hydrate.pc \in {"format", "done"}
  /\ hydrate.failed # "none" =>
       /\ hydrate.pc = "failed"
       /\ ~hydrate.embedsStarted
       /\ result = EmptyObj
  /\ hydrate.pc \in {"embeds", "format", "done"} =>
       hydrate.pending = {} /\ hydrate.failed = "none"

\* the read of the labels rejected after the reads of the accounts and the
\* posts had fulfilled: the call failed and embed resolution never started
C23_Witness ==
  /\ hydrate.pc = "failed"
  /\ hydrate.failed = "labels"
  /\ hydrate.pending = {}
  /\ DOMAIN hydrate.actors = Dids
  /\ PostA1 \in DOMAIN hydrate.posts
  /\ ~hydrate.embedsStarted

(***************************************************************************)
(* Claims about embedsForPosts (SpecSvc)                                   *)
(***************************************************************************)
\* the view the record-embed resolution yields for one referenced uri
ResolvedRecordView(u) ==
  LET views == nestedRecordViews(db, <<[embed |-> Embed("record", u, "absent")]>>).value
  IN  IF u \in DOMAIN views THEN views[u] ELSE NoView

\* C24: for a post with a record-with-media embed, the view embedsForPosts
\* returns combines the view of the media (images or external link) with the
\* record view the record-embed resolution yields for the referenced uri; with
\* media of another type the post gets no embed view.
C24_RecordWithMediaCombinesBoth ==
  op.name = "embedsForPosts" =>
    \A u \in Range(op.ids) \cap db.posts :
      LET e == RecordOf(u).embed IN
      e.type = "recordWithMedia" =>
        IF e.media \in {"images", "external"}
          THEN /\ u \in DOMAIN result
               /\ result[u].type = "app.bsky.embed.recordWithMedia#view"
               /\ result[u].media = e.media
               /\ result[u].record = ResolvedRecordView(e.uri)
          ELSE u \notin DOMAIN result

(***************************************************************************)
(* Claims about the skeleton and the response of getFeed (SpecFeed)        *)
(***************************************************************************)
\* C25: after a successful call of the generator the skeleton items have the
\* length and order of the generator's feed entries; each item keeps the post
\* uri and the feedContext of its entry and has a repost reference exactly when
\* the entry's reason has a string repost field; the feedContext of every item
\* that reaches the response is the one of its entry.
C25_SkeletonItemsMirrorEntries ==
  /\ pc \in {"hydration", "rules"} =>
       LET entries == upstream.data.feed IN
       /\ Len(skeleton.items) = Len(entries)
       /\ \A i \in 1..Len(entries) :
            /\ skeleton.items[i].post = entries[i].post
            /\ skeleton.items[i].feedContext = entries[i].feedContext
            /\ (skeleton.items[i].repost # NoUri) <=> (entries[i].repostKind = "string")
            /\ entries[i].repostKind = "string" =>
                 skeleton.items[i].repost = entries[i].repost
  /\ pc = "done" =>
       LET entries == upstream.data.feed
           shown == SelectSeq(skeleton.items, LAMBDA item : item.post \in hydration.posts)
           feed == response.body.feed
       IN  /\ \A i \in 1..Len(skeleton.items) :
                \E j \in 1..Len(entries) :
                  /\ entries[j].post = skeleton.items[i].post
                  /\ entries[j].feedContext = skeleton.items[i].feedContext
           /\ Len(feed) <= Len(shown)
           /\ \A i \in 1..Len(feed) :
                /\ feed[i].post = shown[i].post
                /\ feed[i].feedContext = shown[i].feedContext

\* the generator sent did:b's repost of PostA1 with a feedContext and PostB2
\* with a reason whose repost is no string; the view of the first entry carries
\* the repost and the feedContext
C25_Witness ==
  /\ pc = "done"
  /\ Len(upstream.data.feed) = 2
  /\ upstream.data.feed[1] = FeedEntry(PostA1, "string", RepostByB, "ctx-1")
  /\ upstream.data.feed[2].repostKind = "object"
  /\ Len(response.body.feed) >= 1
  /\ response.body.feed[1].reason = RepostByB
  /\ response.body.feed[1].feedContext = "ctx-1"

\* the top-level keys of the generator's body that skeletonFromFeedGen and the
\* Skeleton stage take out or write themselves
ReservedKeys == {"feed", "cursor", "resHeaders", "feedItems"}

\* C26: the other top-level fields of the generator's body are merged into the
\* response body, but the body's feed and cursor are the pipeline's own, and
\* the response headers are server-timing plus the generator's
\* content-language when it sent one: nothing in the generator's body or
\* headers adds another response header.
C26_GeneratorCannotReplaceOrInject ==
  pc = "done" =>
    LET body == response.body
        sent == Get(upstream.headers, "content-language")
    IN  /\ DOMAIN body = {"feed", "cursor"} \cup (DOMAIN upstream.data \ ReservedKeys)
        /\ \A k \in DOMAIN upstream.data \ ReservedKeys : body[k] = upstream.data[k]
        /\ body.cursor = Get(upstream.data, "cursor")
        /\ body.feed = PresentedFeed(skeleton, hydration, params.limit)
        /\ \A i \in 1..Len(body.feed) :
             DOMAIN body.feed[i] = {"post", "author", "reason", "feedContext"}
        /\ DOMAIN response.headers
             = {"server-timing"}
               \cup (IF sent # Undefined THEN {"content-language"} ELSE {})
        /\ sent # Undefined => response.headers["content-language"] = sent

\* the generator's body had fields named resHeaders and feedItems and one of
\* its own, and its response had a set-cookie header and no content-language
C26_Witness ==
  /\ pc = "done"
  /\ ExtraKeys \subseteq DOMAIN upstream.data
  /\ "set-cookie" \in DOMAIN upstream.headers
  /\ "content-language" \notin DOMAIN upstream.headers
  /\ Len(response.body.feed) = 1
  /\ response.body["x"] = "extra"
  /\ DOMAIN response.headers = {"server-timing"}

C28_NoTimerAfterDestroy ==
  pusher.destroy = "resolved" => \A k \in Loops : pollState[k].timers = {}

\* C29: after a single start(), each poll loop has at most one call of its
\* push function in flight and at most one timeout pending, and no timeout
\* pending while a call is in flight: the next round is scheduled when the
\* round before has settled, whether it returned or threw.
C29_OneRoundAtATime ==
  \A k \in Loops :
    /\ Cardinality(pollState[k].chains) <= 1
    /\ Cardinality(pollState[k].timers) <= 1
    /\ pollState[k].chains # {} => pollState[k].timers = {}
    /\ pollState[k].rounds <= pollState[k].timersSet + 1
    /\ (pollState[k].chains = {} /\ pusher.started /\ ~pusher.destroyed
        /\ pollState[k].rounds < MaxRounds) => pollState[k].timers # {}

\* the first round of the repo loop threw, its timeout has fired and the second
\* round is in flight
C29_Witness ==
  /\ pushlog.fn = "repo" /\ pushlog.threw
  /\ pollState["repo"].rounds = 2
  /\ pollState["repo"].chains = {2}
  /\ pollState["repo"].tries = 1
  /\ pollState["repo"].timers = {}

\* C30: confirmedAt of a push event is set only in an attempt in which the
\* pushes to the appview and to the moderation service both succeeded; when
\* one of them failed the event stays unconfirmed and its lastAttempted is set
\* to the time of the attempt; every unconfirmed event of the round is
\* attempted, whatever became of the others.
C30_ConfirmedOnlyWhenBothSucceed ==
  pushlog.fn # "none" =>
    LET before == pushlog.before
        after == events[pushlog.fn]
    IN  IF ~pushlog.dbOk THEN after = before
        ELSE \A e \in DOMAIN before :
               IF e \notin Unconfirmed(before) THEN after[e] = before[e]
               ELSE IF pushlog.outcomes[e].appview /\ pushlog.outcomes[e].moderation
                 THEN after[e].confirmedAt = Some(pushlog.at)
                 ELSE /\ after[e].confirmedAt = Null
                      /\ after[e].lastAttempted = Some(pushlog.at)

\* a round over two unconfirmed repo events: the moderation service refused
\* e1, which stays unconfirmed with a new lastAttempted, and e2 was confirmed
C30_Witness ==
  /\ pushlog.fn = "repo"
  /\ Unconfirmed(pushlog.before) = EventIds
  /\ pushlog.outcomes["e1"] = PushOutcome(TRUE, FALSE)
  /\ pushlog.outcomes["e2"] = PushOutcome(TRUE, TRUE)
  /\ pushlog.at = 2
  /\ events["repo"]["e1"].confirmedAt = Null
  /\ events["repo"]["e1"].lastAttempted = Some(2)
  /\ events["repo"]["e2"].confirmedAt = Some(2)

\* the attempts a row counts: a null column counts as none
AttemptsOf(evt) == IF evt.attempts = Null THEN 0 ELSE evt.attempts[1]

\* C34: every failed attempt of an event stores attempts = the attempts it had
\* before + 1, null counting as 0.
C34_FailedAttemptCountsOne ==
  (pushlog.fn # "none" /\ pushlog.dbOk) =>
    \A e \in Unconfirmed(pushlog.before) :
      ~(pushlog.outcomes[e].appview /\ pushlog.outcomes[e].moderation) =>
        events[pushlog.fn][e].attempts = Some(AttemptsOf(pushlog.before[e]) + 1)

\* the step is the settling of a round of loop k
RoundSettles(k) ==
  pollState'[k].chains # pollState[k].chains /\ pollState'[k].timersSet # pollState[k].timersSet

\* C33: tries of a poll loop is a non-negative integer, set to 0 exactly after
\* a round whose push function returned true and increased by 1 after a round
\* that returned false or threw; the delay of the next round is
\* min(10^tries, 30000) ms, at most 30 seconds, and a round that throws
\* schedules the next round too.
C33_TriesAndDelay ==
  [][\A k \in Loops :
       /\ pollState'[k].tries \in Nat
       /\ IF RoundSettles(k)
            THEN /\ pushlog'.fn = k
                 /\ pollState'[k].tries
                      = IF ~pushlog'.threw /\ pushlog'.value THEN 0
                        ELSE pollState[k].tries + 1
                 /\ pollState'[k].timers # {}
                 /\ pollState'[k].delay
                      = Some(IF 10 ^ pollState'[k].tries < 30000
                               THEN 10 ^ pollState'[k].tries ELSE 30000)
                 /\ pollState'[k].delay[1] <= 30000
            ELSE pollState'[k].tries = pollState[k].tries]_vars

\* the fifth round in a row of the repo loop that found nothing or threw: the
\* last one threw, and the next round is 30 seconds away
C33_Witness ==
  /\ pollState["repo"].tries = 5
  /\ pushlog.fn = "repo" /\ pushlog.threw
  /\ pollState["repo"].timers # {}
  /\ pollState["repo"].delay = Some(30000)

\* C32: after a round of a poll loop that found unconfirmed events and in which
\* no push succeeded, tries is not reset to 0.
C32_FailingRoundKeepsBackoff ==
  (/\ pushlog.fn # "none"
   /\ ~pushlog.threw
   /\ Unconfirmed(pushlog.before) # {}
   /\ \A e \in Unconfirmed(pushlog.before) : ~pushToBoth(pushlog.outcomes[e]))
    => pollState[pushlog.fn].tries > 0

\* every row of the three tables is confirmed
AllConfirmed == \A k \in Loops : Unconfirmed(events[k]) = {}

\* a row that is confirmed is not attempted by the step and keeps its columns
ConfirmedNotPushedAgain ==
  \A k \in Loops : \A e \in DOMAIN events[k] :
    events[k][e].confirmedAt # Null =>
      /\ events'[k][e] = events[k][e]
      /\ (pushlog' # pushlog /\ pushlog'.fn = k) => e \notin DOMAIN pushlog'.outcomes

\* C31: once both push targets accept every request and the pusher is not
\* destroyed, every unconfirmed repo, record and blob push event is eventually
\* confirmed, and a confirmed event is never pushed again.
C31_EventuallyConfirmed ==
  /\ (accepting /\ ~pusher.destroyed) ~> AllConfirmed
  /\ [][ConfirmedNotPushedAgain]_vars

\* the targets accept, every row is confirmed, and the repo and blob rows were
\* attempted in vain before
C31_Witness ==
  /\ accepting /\ ~pusher.destroyed /\ AllConfirmed
  /\ events["repo"]["e1"].attempts # Null
  /\ events["blob"]["e1"].lastAttempted # Null

\* the status rows of a subject
StatusOf(table, id) == { r \in table : r.did = id.did /\ r.recordPath = id.recordPath }

\* the step applies a moderation event that affects the status of subject id
StatusEventApplied(id) ==
  /\ modLog'.calls # modLog.calls
  /\ modLog'.returned = "status"
  /\ getStatusIdentifierFromSubject(modLog'.event.subjectDid, modLog'.event.subjectUri) = id

\* takendown tells whether the last takedown or reverse-takedown of the
\* subject was a takedown
TakendownIsLastTakedown ==
  \A id \in StatusIdentifiers :
    /\ StatusOf(modStatus, id) = {} => modLast[id] = "none"
    /\ \A r \in StatusOf(modStatus, id) :
         r.takendown <=> modLast[id] = "com.atproto.admin.defs#modEventTakedown"

\* the events of the other types leave takendown and suspendUntil of an
\* existing status alone, and a reverse-takedown leaves suspendUntil null
OtherEventsKeepTakedown ==
  \A id \in StatusIdentifiers :
    StatusEventApplied(id) =>
      /\ StatusOf(modStatus', id) # {}
      /\ \A after \in StatusOf(modStatus', id) :
           /\ modLog'.event.action = "com.atproto.admin.defs#modEventReverseTakedown"
                => after.suspendUntil = Null
           /\ modLog'.event.action \notin
                { "com.atproto.admin.defs#modEventTakedown",
                  "com.atproto.admin.defs#modEventReverseTakedown" }
                => \A before \in StatusOf(modStatus, id) :
                     /\ after.takendown = before.takendown
                     /\ after.suspendUntil = before.suspendUntil

\* C35: after any sequence of moderation events, takendown of a subject is
\* true iff its most recent takedown or reverse-takedown event was a takedown;
\* the events of every other type leave takendown and suspendUntil of an
\* existing status unchanged, and a reverse-takedown clears suspendUntil.
C35_TakendownFollowsLastTakedown ==
  /\ []TakendownIsLastTakedown
  /\ [][OtherEventsKeepTakedown]_vars

\* a subject taken down for two hours, then commented on: it is still taken
\* down and suspended
C35_Witness ==
  /\ modLog.event.action = "com.atproto.admin.defs#modEventComment"
  /\ modLog.returned = "status"
  /\ \E r \in StatusOf(modStatus,
                       getStatusIdentifierFromSubject(modLog.event.subjectDid,
                                                      modLog.event.subjectUri)) :
       /\ r.takendown
       /\ r.suspendUntil = Some(now + 2 * 3600000)
       /\ r.lastReportedAt # Null

\* the step of a call of adjustModerationSubjectStatus: it creates the row of
\* the subject or updates it, and writes nothing for an action that does not
\* affect the status
CreatesOrUpdatesOneRow ==
  LET ev == modLog'.event
      id == getStatusIdentifierFromSubject(ev.subjectDid, ev.subjectUri)
  IN
  modLog'.calls # modLog.calls =>
    IF ev.action = "com.atproto.admin.defs#modEventLabel"
      THEN modLog'.returned = "null" /\ modStatus' = modStatus
    ELSE IF modLog'.returned # "status" THEN modStatus' = modStatus
    ELSE IF StatusOf(modStatus, id) = {}
      THEN /\ modStatus \subseteq modStatus'
           /\ Cardinality(modStatus' \ modStatus) = 1
           /\ modStatus' \ modStatus = StatusOf(modStatus', id)
      ELSE /\ Cardinality(modStatus') = Cardinality(modStatus)
           /\ modStatus \ StatusOf(modStatus, id) = modStatus' \ StatusOf(modStatus', id)
           /\ Cardinality(StatusOf(modStatus', id)) = 1

\* C36: adjustModerationSubjectStatus creates a status row when the subject
\* has none and updates the existing row otherwise, so that a subject
\* identifier has at most one row; for an event whose action does not affect
\* the status it returns null and writes nothing.
C36_OneRowPerSubject ==
  /\ [](\A id \in StatusIdentifiers : Cardinality(StatusOf(modStatus, id)) <= 1)
  /\ [](Cardinality(modStatus) <= Cardinality(StatusIdentifiers))
  /\ [][CreatesOrUpdatesOneRow]_vars

\* both subjects have a row, and one of the rows was created by one event and
\* updated by another: it was reported and escalated
C36_Witness ==
  /\ Cardinality(modStatus) = 2
  /\ \E r \in modStatus :
       r.lastReportedAt # Null /\ r.reviewState = REVIEWESCALATED

\* the post of the record indexed by the step is already in the post table
AlreadyIndexed == \E p \in postDb.post : p.uri = indexLog'.uri

\* C37: indexing a post whose uri is already in the post table is a no-op:
\* insertFn returns null and writes no embed row and no post_hierarchy row, so
\* the tables are those of indexing it once, and no notification is produced.
C37_ReindexingIsNoOp ==
  [][AlreadyIndexed =>
       /\ indexLog'.returned = Null
       /\ postDb' = postDb
       /\ indexLog'.events = <<>>]_vars

\* a reply indexed before its parent and without an embed is indexed again,
\* with images and a mention, once its parent is indexed: nothing is written
C37_Witness ==
  /\ indexLog.uri = Thread2
  /\ indexLog.returned = Null
  /\ indexLog.obj.embed = EmbedImages
  /\ \E p \in postDb.post : p.uri = Thread2
  /\ \E h \in postDb.post_hierarchy : h.uri = Thread1
  /\ ~\E h \in postDb.post_hierarchy : h.uri = Thread2 /\ h.ancestorUri = Thread1
  /\ ~\E i \in postDb.post_embed_image : i.postUri = Thread2

\* the notifications of the given reason among the messages of the last record
NotifsFor(reason) ==
  { i \in DOMAIN indexLog.events : indexLog.events[i].reason = reason }

\* C38: eventsForInsert never notifies the creator of the post, neither for a
\* mention of themselves nor for a reply in a thread with posts of their own,
\* and emits at most one 'reply' notification per ancestor author, whose
\* reasonSubject is the nearest ancestor post of that author.
C38_NoSelfNotifyOneReplyPerAuthor ==
  indexLog.returned # Null =>
    LET obj == indexLog.returned[1]
        notifs == indexLog.events
    IN
    /\ \A i \in DOMAIN notifs : notifs[i].userDid # obj.post.creator
    /\ \A i, j \in NotifsFor("reply") : notifs[i].userDid = notifs[j].userDid => i = j
    /\ \A i \in NotifsFor("reply") :
         \E a \in obj.ancestors :
           /\ a.ancestorUri = notifs[i].reasonSubject
           /\ a.ancestorUri.did = notifs[i].userDid
           /\ \A b \in obj.ancestors :
                b.ancestorUri.did = notifs[i].userDid => a.depth <= b.depth

\* the last post of the thread, by did:a, mentions did:a and did:b: its
\* ancestors are a post of did:a and two posts of did:b, and did:b gets the
\* mention and one reply notification, about the nearer of its two posts
C38_Witness ==
  /\ indexLog.uri = Thread4
  /\ indexLog.returned # Null
  /\ Cardinality(indexLog.returned[1].ancestors) = 3
  /\ \E f \in DOMAIN indexLog.obj.facets : indexLog.obj.facets[f] = FacetMention("did:a")
  /\ Cardinality(NotifsFor("mention")) = 1
  /\ Cardinality(NotifsFor("reply")) = 1
  /\ \A i \in NotifsFor("reply") :
       indexLog.events[i].userDid = "did:b" /\ indexLog.events[i].reasonSubject = Thread2

====
